---- MODULE Spec2Model ----
(***************************************************************************)
(* A model of webmachine-rust: the decision state machine of src/lib.rs,   *)
(* the request/response context of src/context.rs, the header values of    *)
(* src/headers.rs and the content negotiation of                           *)
(* src/content_negotiation.rs.                                             *)
(*                                                                         *)
(* One request is processed per behaviour.  The request and the scalar     *)
(* fields of the resource are fixed by Init; every resource callback is a  *)
(* closure of the application, so each invocation returns any value of its *)
(* type (and may write the context fields its documentation names).        *)
(***************************************************************************)
EXTENDS Integers, Sequences, FiniteSets, TLC

VARIABLES
  context,         \* WebmachineContext: request, response, negotiation results, flags
  resource,        \* the scalar fields of the WebmachineResource
  transition_map,  \* the transition table the state machine reads
  state,           \* execute_state_machine: the current Decision
  loop_count,      \* execute_state_machine: transitions counted so far
  decisions,       \* execute_state_machine: the (decision, outcome, next) log
  calls,           \* the resource callbacks invoked so far, with what they returned
  now,             \* the instant Utc::now() returns
  pc,              \* where the processing of the request stands
  converted,       \* a header on its way from text to HeaderValue and back to text
  threads,         \* the requests that are processed at the same time, one a thread
  routes           \* WebmachineDispatcher: the resource of each route

vars ==
  <<context, resource, transition_map, state, loop_count, decisions, calls, now, pc,
    converted, threads, routes>>

(***************************************************************************)
(* Strings                                                                 *)
(***************************************************************************)

Char(s, i) == SubSeq(s, i, i)

\* char::to_uppercase and char::to_lowercase on the ASCII letters.
UpperChar(c) ==
  IF \E i \in 1..26 : Char("abcdefghijklmnopqrstuvwxyz", i) = c
  THEN Char("ABCDEFGHIJKLMNOPQRSTUVWXYZ",
            CHOOSE i \in 1..26 : Char("abcdefghijklmnopqrstuvwxyz", i) = c)
  ELSE c

LowerChar(c) ==
  IF \E i \in 1..26 : Char("ABCDEFGHIJKLMNOPQRSTUVWXYZ", i) = c
  THEN Char("abcdefghijklmnopqrstuvwxyz",
            CHOOSE i \in 1..26 : Char("ABCDEFGHIJKLMNOPQRSTUVWXYZ", i) = c)
  ELSE c

RECURSIVE to_uppercase(_)
to_uppercase(s) ==
  IF s = "" THEN "" ELSE UpperChar(Char(s, 1)) \o to_uppercase(Tail(s))

RECURSIVE to_lowercase(_)
to_lowercase(s) ==
  IF s = "" THEN "" ELSE LowerChar(Char(s, 1)) \o to_lowercase(Tail(s))

starts_with(s, prefix) ==
  Len(prefix) <= Len(s) /\ SubSeq(s, 1, Len(prefix)) = prefix

\* The index of the first occurrence of the character c in s, 0 when there is none.
FindChar(s, c) ==
  IF \A i \in 1..Len(s) : Char(s, i) # c THEN 0
  ELSE CHOOSE i \in 1..Len(s) : Char(s, i) = c /\ \A j \in 1..(i - 1) : Char(s, j) # c

\* str::splitn(2, c): the pieces before and after the first c.
splitn2(s, c) ==
  LET pieces(i) ==
        IF i = 0 THEN <<s>> ELSE <<SubSeq(s, 1, i - 1), SubSeq(s, i + 1, Len(s))>>
  IN pieces(FindChar(s, c))

(***************************************************************************)
(* Option and Result values                                                *)
(***************************************************************************)

None == [some |-> FALSE]
Some(v) == [some |-> TRUE, val |-> v]

Ok(v) == [ok |-> TRUE, val |-> v]
Err(code) == [ok |-> FALSE, code |-> code]

\* Option::map
Option_map(option, F(_)) == IF option.some THEN Some(F(option.val)) ELSE None

\* Vec::first and Iterator::find on a sequence.
first(seq) == IF seq = <<>> THEN None ELSE Some(seq[1])

find(seq, P(_)) ==
  IF \A i \in 1..Len(seq) : ~P(seq[i]) THEN None
  ELSE Some(seq[CHOOSE i \in 1..Len(seq) :
                  P(seq[i]) /\ \A j \in 1..(i - 1) : ~P(seq[j])])

filter(seq, P(_)) ==
  LET F[i \in 0..Len(seq)] ==
        IF i = 0 THEN <<>>
        ELSE IF P(seq[i]) THEN Append(F[i - 1], seq[i]) ELSE F[i - 1]
  IN F[Len(seq)]

map(seq, F(_)) == [i \in 1..Len(seq) |-> F(seq[i])]

\* Vec::sort_by, a stable sort: Less(a, b) is "cmp(a, b) = Ordering::Less".  Each
\* element goes before the first already placed element it is less than.
InsertSorted(x, sorted, Less(_, _)) ==
  LET placed(p) == SubSeq(sorted, 1, p - 1) \o <<x>> \o SubSeq(sorted, p, Len(sorted))
  IN placed(IF \A k \in 1..Len(sorted) : ~Less(x, sorted[k]) THEN Len(sorted) + 1
            ELSE CHOOSE k \in 1..Len(sorted) :
                   Less(x, sorted[k]) /\ \A j \in 1..(k - 1) : ~Less(x, sorted[j]))

sorted_by(seq, Less(_, _)) ==
  LET F[i \in 0..Len(seq)] ==
        IF i = 0 THEN <<>> ELSE InsertSorted(seq[i], F[i - 1], Less)
  IN F[Len(seq)]

\* Itertools::cartesian_product: the left sequence is the outer loop.
RECURSIVE Concat(_)
Concat(seqs) == IF seqs = <<>> THEN <<>> ELSE Head(seqs) \o Concat(Tail(seqs))

cartesian_product(as, bs) ==
  Concat([i \in 1..Len(as) |-> [j \in 1..Len(bs) |-> <<as[i], bs[j]>>]])

(***************************************************************************)
(* src/headers.rs: header values and their parser                          *)
(***************************************************************************)

SEPERATORS == {"(", ")", "<", ">", "@", ",", ";", "=", "{", "}"}
VALUE_SEPERATORS == {"(", ")", "<", ">", "@", ",", ";", "{", "}"}

is_whitespace(c) == c \in {" ", "\t", "\n", "\r", "\f"}

\* The parser's position p is the index of the character chars.peek() returns;
\* p > Len(s) when the iterator is exhausted.
RECURSIVE skip_whitespace(_, _)
skip_whitespace(s, p) ==
  IF p <= Len(s) /\ is_whitespace(Char(s, p)) THEN skip_whitespace(s, p + 1) ELSE p

RECURSIVE trim_start(_)
trim_start(s) ==
  IF s # "" /\ is_whitespace(Char(s, 1)) THEN trim_start(Tail(s)) ELSE s

RECURSIVE trim_end(_)
trim_end(s) ==
  IF s # "" /\ is_whitespace(Char(s, Len(s)))
  THEN trim_end(SubSeq(s, 1, Len(s) - 1)) ELSE s

trim(s) == trim_end(trim_start(s))

\* The body of a quoted string, from the character after the opening quote: up to
\* the next unescaped quote, a backslash taking the character after it.
RECURSIVE quoted_string(_, _, _)
quoted_string(s, p, value) ==
  IF p > Len(s) THEN [val |-> value, pos |-> p]
  ELSE IF Char(s, p) = "\"" THEN [val |-> value, pos |-> p + 1]
  ELSE IF Char(s, p) = "\\"
       THEN IF p + 1 <= Len(s)
            THEN quoted_string(s, p + 2, value \o Char(s, p + 1))
            ELSE quoted_string(s, p + 1, value \o "\\")
       ELSE quoted_string(s, p + 1, value \o Char(s, p))

RECURSIVE bare_value(_, _, _, _)
bare_value(s, p, seperators, value) ==
  IF p <= Len(s) /\ Char(s, p) \notin seperators
  THEN bare_value(s, p + 1, seperators, value \o Char(s, p))
  ELSE [val |-> value, pos |-> p]

\* values.push(..) of the value read; the position stays.
pushed(values, r) == [values |-> Append(values, r.val), pos |-> r.pos]

\* chars.peek().is_some() && chars.peek().unwrap() == &c
peek_is(s, p, c) == p <= Len(s) /\ Char(s, p) = c

\* value -> [^SEP]* | quoted-string
header_value(s, p0, seperators) ==
  LET read(p) == IF peek_is(s, p, "\"") THEN quoted_string(s, p + 1, "")
                 ELSE bare_value(s, p, seperators, "")
      trimmed(r) == [val |-> trim(r.val), pos |-> r.pos]
  IN trimmed(read(skip_whitespace(s, p0)))

\* parameter_value -> value | quoted-string
parse_header_parameter_value(s, p0, values) ==
  LET read(p) == IF peek_is(s, p, "\"") THEN quoted_string(s, p + 1, "")
                 ELSE header_value(s, p, {";"})
  IN pushed(values, read(skip_whitespace(s, p0)))

\* parameter -> attribute [= [value]]; r is the attribute pushed.
parameter_value_after(s, r) ==
  IF peek_is(s, r.pos, "=") THEN parse_header_parameter_value(s, r.pos + 1, r.values)
  ELSE r

parse_header_parameter(s, p, values) ==
  parameter_value_after(s, pushed(values, header_value(s, p, SEPERATORS)))

\* parameters -> parameter [; parameters]; r is the parameter parsed.
RECURSIVE parse_header_parameters(_, _, _)
parameters_after(s, r) ==
  IF peek_is(s, r.pos, ";") THEN parse_header_parameters(s, r.pos + 1, r.values) ELSE r

parse_header_parameters(s, p, values) ==
  parameters_after(s, parse_header_parameter(s, p, values))

\* header -> value [; parameters]
parse_header(s) ==
  parameters_after(s, pushed(<<>>, header_value(s, 1, VALUE_SEPERATORS))).values

\* itertools batching in pairs: a last value without a partner is paired with "".
batch(values) ==
  [i \in 1..((Len(values) + 1) \div 2) |->
     <<values[2 * i - 1], IF 2 * i <= Len(values) THEN values[2 * i] ELSE "">>]

NoParams == <<>>

\* HashMap::insert on a parameter map.
insert(m, k, v) == [x \in DOMAIN m \cup {k} |-> IF x = k THEN v ELSE m[x]]

basic(s) == [value |-> s, params |-> NoParams, quote |-> FALSE]

\* batch(second).iter().fold(HashMap::new(), ..): a pair with an empty name is skipped.
fold_params(pairs) ==
  LET fold[i \in 0..Len(pairs)] ==
        IF i = 0 THEN NoParams
        ELSE IF pairs[i][1] # "" THEN insert(fold[i - 1], pairs[i][1], pairs[i][2])
             ELSE fold[i - 1]
  IN fold[Len(pairs)]

\* The header value of the strings parse_header returned.
from_values(values) ==
  IF Tail(values) = <<>> THEN basic(Head(values))
  ELSE [value |-> Head(values), params |-> fold_params(batch(Tail(values))),
        quote |-> FALSE]

parse_string(s) == from_values(parse_header(s))

quote(h) == [h EXCEPT !.quote = TRUE]

\* No header is being converted.
NoHeader == [step |-> "idle", text |-> "", value |-> basic(""), original |-> basic("")]

\* A faulty variant: the weak tag keeps its quotes.
weak_etag_unparsed(h) ==
  IF starts_with(h.value, "W/") THEN Some(SubSeq(h.value, 3, Len(h.value))) ELSE None

weak_etag(h) ==
  IF starts_with(h.value, "W/")
  THEN Some(parse_header(SubSeq(h.value, 3, Len(h.value)))[1])
  ELSE None

\* PartialEq<HeaderValue> and PartialEq<String> for HeaderValue.
header_eq(a, b) == a.value = b.value /\ a.params = b.params
header_eq_str(h, str) == h.value = str

(***************************************************************************)
(* src/context.rs: the request and the response                            *)
(***************************************************************************)

\* HashMap and BTreeMap header maps are functions from the stored names (original
\* casing kept) to sequences of header values; a lookup compares upper-cased names.
find_key(headers, header) ==
  LET found(hits) == IF hits = {} THEN None ELSE Some(CHOOSE k \in hits : TRUE)
  IN found({k \in DOMAIN headers : to_uppercase(k) = to_uppercase(header)})

has_header(request, header) == find_key(request.headers, header).some

find_header(request, header) ==
  LET values(k) == IF k.some THEN request.headers[k.val] ELSE <<>>
  IN values(find_key(request.headers, header))

\* A faulty variant: the value is compared with its quotes on.
has_header_value_quoted(request, header, value) ==
  find(find_header(request, header),
       LAMBDA val : header_eq_str(val, "\"" \o value \o "\"")).some

\* The values stored under the header, when it is there, hold one equal to value.
has_header_value(request, header, value) ==
  find(find_header(request, header), LAMBDA val : header_eq_str(val, value)).some

\* The first value under Content-Type; application/json when there is none.
content_type(request) ==
  LET value(v) == IF v.some THEN v.val.value ELSE "application/json"
  IN value(first(find_header(request, "CONTENT-TYPE")))

is_put_or_post(request) == to_uppercase(request.method) \in {"PUT", "POST"}

\* A faulty variant: a HEAD request is not taken for a read.
is_get_or_head_without_head(request) == to_uppercase(request.method) = "GET"

\* A faulty variant: every method is taken for a read.
is_get_or_head_any_method(request) == request.method = request.method

is_get_or_head(request) == to_uppercase(request.method) \in {"GET", "HEAD"}
is_options(request) == to_uppercase(request.method) = "OPTIONS"
is_put(request) == to_uppercase(request.method) = "PUT"
is_post(request) == to_uppercase(request.method) = "POST"

\* A faulty variant: every method but PUT and POST counts as a DELETE.
is_delete_unless_put_or_post(request) ==
  to_uppercase(request.method) \notin {"PUT", "POST"}

is_delete(request) == to_uppercase(request.method) = "DELETE"

\* A faulty variant: a HEAD request is rendered as a GET is.
is_get_or_is_head(request) == to_uppercase(request.method) \in {"GET", "HEAD"}

is_get(request) == to_uppercase(request.method) = "GET"

has_accept_header(request) == has_header(request, "ACCEPT")
accept(request) == find_header(request, "ACCEPT")
has_accept_language_header(request) == has_header(request, "ACCEPT-LANGUAGE")
accept_language(request) == find_header(request, "ACCEPT-LANGUAGE")
has_accept_charset_header(request) == has_header(request, "ACCEPT-CHARSET")
accept_charset(request) == find_header(request, "ACCEPT-CHARSET")
has_accept_encoding_header(request) == has_header(request, "ACCEPT-ENCODING")
accept_encoding(request) == find_header(request, "ACCEPT-ENCODING")

response_has_header(response, header) == find_key(response.headers, header).some

\* BTreeMap::insert: the values stored under the name are replaced.
add_header(response, header, values) ==
  [response EXCEPT !.headers =
     [k \in DOMAIN response.headers \cup {header} |->
        IF k = header THEN values ELSE response.headers[k]]]

\* add_headers: every entry of the map is inserted, its strings as basic values.
RECURSIVE add_headers(_, _)
add_headers(response, headers) ==
  IF DOMAIN headers = {} THEN response
  ELSE LET k == CHOOSE x \in DOMAIN headers : TRUE
       IN add_headers(add_header(response, k, map(headers[k], basic)),
                      [x \in DOMAIN headers \ {k} |-> headers[x]])

cors_headers(allowed_methods) ==
  [x \in {"Access-Control-Allow-Origin", "Access-Control-Allow-Methods",
          "Access-Control-Allow-Headers"} |->
     CASE x = "Access-Control-Allow-Origin" -> <<"*">>
       [] x = "Access-Control-Allow-Methods" -> allowed_methods
       [] OTHER -> <<"Content-Type">>]

\* The response body is absent or a byte string; has_body holds for a non-empty one.
has_body(response) == response.body.some /\ response.body.val # ""

WebmachineRequest_default ==
  [request_path |-> "/", base_path |-> "/", method |-> "GET", headers |-> <<>>]

WebmachineResponse_default ==
  [status |-> 200, headers |-> <<>>, body |-> None]

WebmachineContext_default ==
  [request |-> WebmachineRequest_default,
   response |-> WebmachineResponse_default,
   selected_media_type |-> None,
   selected_language |-> None,
   selected_charset |-> None,
   selected_encoding |-> None,
   if_unmodified_since |-> None,
   if_modified_since |-> None,
   redirect |-> FALSE,
   new_resource |-> FALSE]

(***************************************************************************)
(* src/content_negotiation.rs                                              *)
(***************************************************************************)

\* Weights are f32 values; the model keeps them in thousandths.  str::parse::<f32>
\* is modelled on signed plain decimals ("1", "0.5", ".5", "1."), the form q values
\* take; every other string is a parse error.
IsDigit(c) == c \in {"0", "1", "2", "3", "4", "5", "6", "7", "8", "9"}

DigitVal(c) ==
  CASE c = "0" -> 0 [] c = "1" -> 1 [] c = "2" -> 2 [] c = "3" -> 3 [] c = "4" -> 4
    [] c = "5" -> 5 [] c = "6" -> 6 [] c = "7" -> 7 [] c = "8" -> 8 [] c = "9" -> 9

AllDigits(s) == \A i \in 1..Len(s) : IsDigit(Char(s, i))

RECURSIVE DigitsVal(_)
DigitsVal(s) ==
  IF s = "" THEN 0
  ELSE 10 * DigitsVal(SubSeq(s, 1, Len(s) - 1)) + DigitVal(Char(s, Len(s)))

\* The value of the digits ip before and fp after the point, in thousandths.
decimal(negative, ip, fp) ==
  IF (ip = "" /\ fp = "") \/ ~AllDigits(ip) \/ ~AllDigits(fp) THEN None
  ELSE IF negative
  THEN Some(0 - (1000 * DigitsVal(ip) + DigitsVal(SubSeq(fp \o "000", 1, 3))))
  ELSE Some(1000 * DigitsVal(ip) + DigitsVal(SubSeq(fp \o "000", 1, 3)))

parse_f32(str) ==
  LET signed == str # "" /\ Char(str, 1) \in {"+", "-"}
      split_at_point(parts) ==
        decimal(signed /\ Char(str, 1) = "-", parts[1],
                IF Len(parts) = 2 THEN parts[2] ELSE "")
  IN split_at_point(splitn2(IF signed THEN Tail(str) ELSE str, "."))

\* weight.parse().unwrap_or(1.0)
parse_weight(weight) ==
  LET unwrap_or(w) == IF w.some THEN w.val ELSE 1000 IN unwrap_or(parse_f32(weight))

\* MediaTypeMatch, in its derived order.
Full == 0
SubStar == 1
Star == 2
NoMatch == 3

MediaType_parse_string(media_type) ==
  LET media(types) ==
        IF types[1] = "" THEN [main |-> "*", sub |-> "*", weight |-> 1000]
        ELSE [main |-> types[1],
              sub |-> IF Len(types) = 1 \/ types[2] = "" THEN "*" ELSE types[2],
              weight |-> 1000]
  IN media(splitn2(media_type, "/"))

MediaType_weight(mt) ==
  IF mt.main = "*" /\ mt.sub = "*" THEN <<mt.weight, 2>>
  ELSE IF mt.sub = "*" THEN <<mt.weight, 1>>
  ELSE <<mt.weight, 0>>

MediaType_matches(self, other) ==
  IF other.main = "*" THEN Star
  ELSE IF self.main = other.main /\ other.sub = "*" THEN SubStar
  ELSE IF self.main = other.main /\ self.sub = other.sub THEN Full
  ELSE NoMatch

MediaType_to_string(mt) == mt.main \o "/" \o mt.sub

as_media_type(h) ==
  IF "q" \in DOMAIN h.params
  THEN [MediaType_parse_string(h.value) EXCEPT !.weight = parse_weight(h.params["q"])]
  ELSE MediaType_parse_string(h.value)

\* Heavier first; among equal weights the more specific first.
sort_media_types(media_types) ==
  LET less(media_a, media_b) ==
        IF media_a[1] = media_b[1] THEN media_a[2] < media_b[2]
        ELSE media_a[1] > media_b[1]
  IN sorted_by(media_types,
               LAMBDA a, b : less(MediaType_weight(as_media_type(a)),
                                  MediaType_weight(as_media_type(b))))

\* The closure of the map: the produced type, the acceptable type and their match.
matched_media_types(produced_media_type, acceptable_media_type) ==
  <<produced_media_type, acceptable_media_type,
    MediaType_matches(produced_media_type, acceptable_media_type)>>

\* A faulty variant: the pairs are not ordered by their match, so that the first
\* produced type that matches at all is returned.
matching_content_type_unranked(res, request) ==
  IF has_accept_header(request)
  THEN Option_map(
         first(filter(map(cartesian_product(res.produces,
                                            sort_media_types(accept(request))),
                          LAMBDA pr :
                            matched_media_types(MediaType_parse_string(pr[1]),
                                                as_media_type(pr[2]))),
                      LAMBDA val : val[3] # NoMatch)),
         LAMBDA result : MediaType_to_string(result[1]))
  ELSE first(res.produces)

\* A faulty variant: the pairs are taken in the order of the client's header, so that
\* of two produced types that match as well the one the client weights higher wins.
matching_content_type_client_first(res, request) ==
  IF has_accept_header(request)
  THEN Option_map(
         first(filter(sorted_by(map(cartesian_product(sort_media_types(accept(request)),
                                                      res.produces),
                                    LAMBDA pr :
                                      matched_media_types(MediaType_parse_string(pr[2]),
                                                          as_media_type(pr[1]))),
                                LAMBDA a, b : a[3] < b[3]),
                      LAMBDA val : val[3] # NoMatch)),
         LAMBDA result : MediaType_to_string(result[1]))
  ELSE first(res.produces)

matching_content_type(res, request) ==
  IF has_accept_header(request)
  THEN Option_map(
         first(filter(sorted_by(map(cartesian_product(res.produces,
                                                      sort_media_types(accept(request))),
                                    LAMBDA pr :
                                      matched_media_types(MediaType_parse_string(pr[1]),
                                                          as_media_type(pr[2]))),
                                LAMBDA a, b : a[3] < b[3]),
                      LAMBDA val : val[3] # NoMatch)),
         LAMBDA result : MediaType_to_string(result[1]))
  ELSE first(res.produces)

MediaLanguage_parse_string(language) ==
  LET media(types) ==
        IF types[1] = "" THEN [main |-> "*", sub |-> "", weight |-> 1000]
        ELSE [main |-> types[1],
              sub |-> IF Len(types) = 1 \/ types[2] = "" THEN "" ELSE types[2],
              weight |-> 1000]
  IN media(splitn2(language, "-"))

MediaLanguage_to_string(lang) ==
  IF lang.sub = "" THEN lang.main ELSE lang.main \o "-" \o lang.sub

\* A faulty variant: the prefix is compared without the `-` after it.
MediaLanguage_matches_any_prefix(self, other) ==
  IF other.main = "*" \/ (self.main = other.main /\ self.sub = other.sub) THEN TRUE
  ELSE starts_with(MediaLanguage_to_string(other), MediaLanguage_to_string(self))

MediaLanguage_matches(self, other) ==
  IF other.main = "*" \/ (self.main = other.main /\ self.sub = other.sub) THEN TRUE
  ELSE starts_with(MediaLanguage_to_string(other), MediaLanguage_to_string(self) \o "-")

as_media_language(h) ==
  IF "q" \in DOMAIN h.params
  THEN [MediaLanguage_parse_string(h.value) EXCEPT !.weight = parse_weight(h.params["q"])]
  ELSE MediaLanguage_parse_string(h.value)

\* A faulty variant: the lighter weight goes first.
LighterFirst(a, b) == a.weight < b.weight

\* The comparator of the three weight sorts: b's weight against a's.
HeavierFirst(a, b) == b.weight < a.weight

sort_media_languages(media_languages) ==
  sorted_by(filter(map(media_languages, as_media_language),
                   LAMBDA lang : lang.weight > 0),
            HeavierFirst)

\* The first (acceptable, provided) pair that matches, acceptable outermost.
first_match(acceptable, provided, parse(_), matches(_, _), to_string(_)) ==
  Option_map(find(map(cartesian_product(acceptable, provided),
                      LAMBDA pr : <<parse(pr[2]), matches(parse(pr[2]), pr[1])>>),
                  LAMBDA val : val[2]),
             LAMBDA result : to_string(result[1]))

matching_language(res, request) ==
  IF has_accept_language_header(request) /\ accept_language(request) # <<>>
  THEN LET matching(acceptable_languages) ==
             IF res.languages_provided = <<>>
             THEN Option_map(first(acceptable_languages), MediaLanguage_to_string)
             ELSE first_match(acceptable_languages, res.languages_provided,
                              MediaLanguage_parse_string, MediaLanguage_matches,
                              MediaLanguage_to_string)
       IN matching(sort_media_languages(accept_language(request)))
  ELSE IF res.languages_provided = <<>> THEN Some("*")
  ELSE first(res.languages_provided)

Charset_parse_string(charset) == [charset |-> charset, weight |-> 1000]

Charset_matches(self, other) ==
  other.charset = "*" \/ to_uppercase(self.charset) = to_uppercase(other.charset)

Charset_to_string(cs) == cs.charset

as_charset(h) ==
  IF "q" \in DOMAIN h.params
  THEN [Charset_parse_string(h.value) EXCEPT !.weight = parse_weight(h.params["q"])]
  ELSE Charset_parse_string(h.value)

sort_media_charsets(charsets) ==
  sorted_by(filter(map(IF find(charsets, LAMBDA cs :
                                 cs.value = "*"
                                   \/ to_uppercase(cs.value) = "ISO-8859-1").some
                       THEN charsets
                       ELSE Append(charsets, parse_string("ISO-8859-1")),
                       as_charset),
                   LAMBDA cs : cs.weight > 0),
            HeavierFirst)

matching_charset(res, request) ==
  IF has_accept_charset_header(request) /\ accept_charset(request) # <<>>
  THEN LET matching(acceptable_charsets) ==
             IF res.charsets_provided = <<>>
             THEN Option_map(first(acceptable_charsets), Charset_to_string)
             ELSE first_match(acceptable_charsets, res.charsets_provided,
                              Charset_parse_string, Charset_matches, Charset_to_string)
       IN matching(sort_media_charsets(accept_charset(request)))
  ELSE IF res.charsets_provided = <<>> THEN Some("ISO-8859-1")
  ELSE first(res.charsets_provided)

Encoding_parse_string(encoding) == [encoding |-> encoding, weight |-> 1000]

Encoding_matches(self, other) ==
  other.encoding = "*" \/ to_lowercase(self.encoding) = to_lowercase(other.encoding)

Encoding_to_string(e) == e.encoding

as_encoding(h) ==
  IF "q" \in DOMAIN h.params
  THEN [Encoding_parse_string(h.value) EXCEPT !.weight = parse_weight(h.params["q"])]
  ELSE Encoding_parse_string(h.value)

\* A faulty variant: identity is not added to the encodings of the header.
sort_encodings_as_listed(encodings) ==
  sorted_by(filter(map(encodings, as_encoding), LAMBDA e : e.weight > 0), HeavierFirst)

sort_encodings(encodings) ==
  sorted_by(filter(map(IF find(encodings, LAMBDA e :
                                 e.value = "*"
                                   \/ to_lowercase(e.value) = "identity").some
                       THEN encodings
                       ELSE Append(encodings, parse_string("identity")),
                       as_encoding),
                   LAMBDA e : e.weight > 0),
            HeavierFirst)

matching_encoding(res, request) ==
  LET identity == Encoding_parse_string("identity")
      matching(acceptable_encodings) ==
        IF res.encodings_provided = <<>>
        THEN IF find(acceptable_encodings, LAMBDA e : e = identity).some
             THEN Some("identity") ELSE None
        ELSE first_match(acceptable_encodings, res.encodings_provided,
                         Encoding_parse_string, Encoding_matches, Encoding_to_string)
  IN IF has_accept_encoding_header(request)
     THEN matching(sort_encodings(accept_encoding(request)))
     ELSE IF res.encodings_provided = <<>> THEN Some("identity")
     ELSE first(res.encodings_provided)

(***************************************************************************)
(* src/lib.rs: the decisions and the transition table                      *)
(***************************************************************************)

MAX_STATE_MACHINE_TRANSITIONS == 100

\* enum Decision.  A decision is a record so that End(status) and the plain nodes
\* compare with one another; status is 0 on every node but End.
Decision(name) == [node |-> name, status |-> 0]
End(status) == [node |-> "End", status |-> status]

\* A faulty variant: A3Options is not taken as terminal.
is_terminal_end_only(decision) == decision.node = "End"

is_terminal(decision) == decision.node \in {"End", "A3Options"}

\* enum Transition
To(decision) == [kind |-> "To", on_true |-> decision, on_false |-> decision]
Branch(decision_true, decision_false) ==
  [kind |-> "Branch", on_true |-> decision_true, on_false |-> decision_false]

\* hashmap!{ key => transition, ... }: a function on the names of its keys.
hashmap(entries) ==
  [name \in {e[1] : e \in entries} |-> (CHOOSE e \in entries : e[1] = name)[2]]

\* The entries of the lazy_static table, in the order of the source.
TRANSITIONS ==
  { <<"Start", To(Decision("B13Available"))>>,
    <<"B3Options", Branch(Decision("A3Options"), Decision("C3AcceptExists"))>>,
    <<"B4RequestEntityTooLarge", Branch(End(413), Decision("B3Options"))>>,
    <<"B5UnknownContentType", Branch(End(415), Decision("B4RequestEntityTooLarge"))>>,
    <<"B6UnsupportedContentHeader", Branch(End(501), Decision("B5UnknownContentType"))>>,
    <<"B7Forbidden", Branch(End(403), Decision("B6UnsupportedContentHeader"))>>,
    <<"B8Authorized", Branch(Decision("B7Forbidden"), End(401))>>,
    <<"B9MalformedRequest", Branch(End(400), Decision("B8Authorized"))>>,
    <<"B10MethodAllowed", Branch(Decision("B9MalformedRequest"), End(405))>>,
    <<"B11UriTooLong", Branch(End(414), Decision("B10MethodAllowed"))>>,
    <<"B12KnownMethod", Branch(Decision("B11UriTooLong"), End(501))>>,
    <<"B13Available", Branch(Decision("B12KnownMethod"), End(503))>>,
    <<"C3AcceptExists", Branch(Decision("C4AcceptableMediaTypeAvailable"), Decision("D4AcceptLanguageExists"))>>,
    <<"C4AcceptableMediaTypeAvailable", Branch(Decision("D4AcceptLanguageExists"), End(406))>>,
    <<"D4AcceptLanguageExists", Branch(Decision("D5AcceptableLanguageAvailable"), Decision("E5AcceptCharsetExists"))>>,
    <<"D5AcceptableLanguageAvailable", Branch(Decision("E5AcceptCharsetExists"), End(406))>>,
    <<"E5AcceptCharsetExists", Branch(Decision("E6AcceptableCharsetAvailable"), Decision("F6AcceptEncodingExists"))>>,
    <<"E6AcceptableCharsetAvailable", Branch(Decision("F6AcceptEncodingExists"), End(406))>>,
    <<"F6AcceptEncodingExists", Branch(Decision("F7AcceptableEncodingAvailable"), Decision("G7ResourceExists"))>>,
    <<"F7AcceptableEncodingAvailable", Branch(Decision("G7ResourceExists"), End(406))>>,
    <<"G7ResourceExists", Branch(Decision("G8IfMatchExists"), Decision("H7IfMatchStarExists"))>>,
    <<"G8IfMatchExists", Branch(Decision("G9IfMatchStarExists"), Decision("H10IfUnmodifiedSinceExists"))>>,
    <<"G9IfMatchStarExists", Branch(Decision("H10IfUnmodifiedSinceExists"), Decision("G11EtagInIfMatch"))>>,
    <<"G11EtagInIfMatch", Branch(Decision("H10IfUnmodifiedSinceExists"), End(412))>>,
    <<"H7IfMatchStarExists", Branch(End(412), Decision("I7Put"))>>,
    <<"H10IfUnmodifiedSinceExists", Branch(Decision("H11IfUnmodifiedSinceValid"), Decision("I12IfNoneMatchExists"))>>,
    <<"H11IfUnmodifiedSinceValid", Branch(Decision("H12LastModifiedGreaterThanUMS"), Decision("I12IfNoneMatchExists"))>>,
    <<"H12LastModifiedGreaterThanUMS", Branch(End(412), Decision("I12IfNoneMatchExists"))>>,
    <<"I4HasMovedPermanently", Branch(End(301), Decision("P3Conflict"))>>,
    <<"I7Put", Branch(Decision("I4HasMovedPermanently"), Decision("K7ResourcePreviouslyExisted"))>>,
    <<"I12IfNoneMatchExists", Branch(Decision("I13IfNoneMatchStarExists"), Decision("L13IfModifiedSinceExists"))>>,
    <<"I13IfNoneMatchStarExists", Branch(Decision("J18GetHead"), Decision("K13ETagInIfNoneMatch"))>>,
    <<"J18GetHead", Branch(End(304), End(412))>>,
    <<"K13ETagInIfNoneMatch", Branch(Decision("J18GetHead"), Decision("L13IfModifiedSinceExists"))>>,
    <<"K5HasMovedPermanently", Branch(End(301), Decision("L5HasMovedTemporarily"))>>,
    <<"K7ResourcePreviouslyExisted", Branch(Decision("K5HasMovedPermanently"), Decision("L7Post"))>>,
    <<"L5HasMovedTemporarily", Branch(End(307), Decision("M5Post"))>>,
    <<"L7Post", Branch(Decision("M7PostToMissingResource"), End(404))>>,
    <<"L13IfModifiedSinceExists", Branch(Decision("L14IfModifiedSinceValid"), Decision("M16Delete"))>>,
    <<"L14IfModifiedSinceValid", Branch(Decision("L15IfModifiedSinceGreaterThanNow"), Decision("M16Delete"))>>,
    <<"L15IfModifiedSinceGreaterThanNow", Branch(Decision("M16Delete"), Decision("L17IfLastModifiedGreaterThanMS"))>>,
    <<"L17IfLastModifiedGreaterThanMS", Branch(Decision("M16Delete"), End(304))>>,
    <<"M5Post", Branch(Decision("N5PostToMissingResource"), End(410))>>,
    <<"M7PostToMissingResource", Branch(Decision("N11Redirect"), End(404))>>,
    <<"M16Delete", Branch(Decision("M20DeleteEnacted"), Decision("N16Post"))>>,
    <<"M20DeleteEnacted", Branch(Decision("O20ResponseHasBody"), End(202))>>,
    <<"N5PostToMissingResource", Branch(Decision("N11Redirect"), End(410))>>,
    <<"N11Redirect", Branch(End(303), Decision("P11NewResource"))>>,
    <<"N16Post", Branch(Decision("N11Redirect"), Decision("O16Put"))>>,
    <<"O14Conflict", Branch(End(409), Decision("P11NewResource"))>>,
    <<"O16Put", Branch(Decision("O14Conflict"), Decision("O18MultipleRepresentations"))>>,
    <<"P3Conflict", Branch(End(409), Decision("P11NewResource"))>>,
    <<"P11NewResource", Branch(End(201), Decision("O20ResponseHasBody"))>>,
    <<"O18MultipleRepresentations", Branch(End(300), End(200))>>,
    <<"O20ResponseHasBody", Branch(Decision("O18MultipleRepresentations"), End(204))>>}

\* A table with a cycle: B13Available leads back to Start while the resource is
\* available.
CyclicTransitionMap ==
  hashmap({<<"Start", To(Decision("B13Available"))>>,
           <<"B13Available", Branch(Decision("Start"), End(503))>>})

\* A faulty table: the successors of H7IfMatchStarExists are exchanged.
SwappedTransitionMap ==
  hashmap({IF e[1] = "H7IfMatchStarExists"
           THEN <<e[1], Branch(e[2].on_false, e[2].on_true)>> ELSE e :
             e \in TRANSITIONS})

TRANSITION_MAP == hashmap(TRANSITIONS)

\* enum DecisionResult; the reason strings are only traced and are left out.  Panic
\* stands for a decision that aborts the thread (an unwrap of None).
True == [kind |-> "True", code |-> 0]
False == [kind |-> "False", code |-> 0]
\* A faulty variant: every error of a callback is reported as 500.
StatusCode_500(code) == [kind |-> "StatusCode", code |-> 500]
StatusCode(code) == [kind |-> "StatusCode", code |-> code]
Panic == [kind |-> "Panic", code |-> 0]

\* A faulty variant: the outcome is inverted.
wrap_inverted(result) == IF result THEN False ELSE True

wrap(result) == IF result THEN True ELSE False

RECURSIVE split(_, _)
split(s, c) ==
  IF FindChar(s, c) = 0 THEN <<s>>
  ELSE <<SubSeq(s, 1, FindChar(s, c) - 1)>>
         \o split(SubSeq(s, FindChar(s, c) + 1, Len(s)), c)

RECURSIVE join(_, _)
join(parts, sep) ==
  IF Len(parts) = 0 THEN ""
  ELSE IF Len(parts) = 1 THEN parts[1]
  ELSE parts[1] \o sep \o join(Tail(parts), sep)

sanitise_path(path) == filter(split(path, "/"), LAMBDA p : p # "")

\* A faulty variant: the path is not placed under the base path.
join_paths_without_base(base, path) ==
  IF path = <<>> THEN "/" ELSE "/" \o join(path, "/")

join_paths(base, path) ==
  LET filtered == filter(base \o path, LAMBDA p : p # "")
  IN IF filtered = <<>> THEN "/"
     ELSE LET new_path == join(filtered, "/")
          IN IF starts_with(new_path, "/") THEN new_path ELSE "/" \o new_path

parse_header_values(value) ==
  IF value = "" THEN <<>>
  ELSE map(split(value, ","), LAMBDA s : parse_string(trim(s)))

(***************************************************************************)
(* Dates.  The instants of a run are the first seconds of the epoch, written *)
(* "Thu, 01 Jan 1970 00:00:0s" with the zone " GMT" or " +0000"; the parser  *)
(* accepts exactly these forms and rejects every other string of the model.  *)
(***************************************************************************)
EpochPrefix == "Thu, 01 Jan 1970 00:00:0"

parse_from_rfc2822(s) ==
  LET n == Len(EpochPrefix)
      zone == SubSeq(s, n + 2, Len(s))
  IN IF starts_with(s, EpochPrefix) /\ Len(s) > n /\ IsDigit(Char(s, n + 1))
        /\ zone \in {" GMT", " +0000"}
     THEN Ok(DigitVal(Char(s, n + 1)))
     ELSE Err(0)

to_rfc2822(datetime) ==
  EpochPrefix \o (CHOOSE c \in {"0", "1", "2", "3", "4", "5", "6", "7", "8", "9"} :
                    DigitVal(c) = datetime) \o " +0000"

\* A faulty variant: the parsed date is not stored.
validate_header_date_unstored(request, header, context_meta) ==
  LET validated(date_value) ==
        [valid |-> date_value.some /\ parse_from_rfc2822(date_value.val.value).ok,
         meta |-> context_meta]
  IN validated(first(find_header(request, header)))

\* The result and the value left in *context_meta.
validate_header_date(request, header, context_meta) ==
  LET stored(parsed) ==
        IF parsed.ok THEN [valid |-> TRUE, meta |-> Some(parsed.val)]
        ELSE [valid |-> FALSE, meta |-> context_meta]
      validated(date_value) ==
        IF date_value.some THEN stored(parse_from_rfc2822(date_value.val.value))
        ELSE [valid |-> FALSE, meta |-> context_meta]
  IN validated(first(find_header(request, header)))

(***************************************************************************)
(* The resource callbacks.  A callback is a closure over the context: every  *)
(* invocation may return any value of its type, and the handlers that the    *)
(* resource documentation lets act on the context may set context.redirect   *)
(* or write the response body.                                               *)
(***************************************************************************)
Results(values) == {Ok(v) : v \in values} \cup {Err(code) : code \in {500, 422}}

CallbackReturns(name, ctx, res) ==
  CASE name \in {"not_authorized"} -> {None, Some("Basic realm=\"User Visible Realm\"")}
    [] name \in {"moved_permanently", "moved_temporarily"} ->
         {None, Some("http://go.away.com/to/here")}
    [] name = "generate_etag" -> {None, Some("1234567890")}
    [] name = "last_modified" -> {None, Some(1), Some(2)}
    [] name = "expires" -> {None, Some(3)}
    [] name = "render_response" -> {None, Some("{}")}
    [] name = "options" ->
         {None, Some(cors_headers(res.allowed_methods)),
          Some([x \in {"content-type", "vary"} |->
                  IF x = "content-type" THEN <<"text/plain">> ELSE <<"Origin">>])}
    [] name \in {"delete_resource", "process_post", "process_put"} -> Results(BOOLEAN)
    [] name = "create_path" -> Results({ctx.request.request_path, "/new/path"})
    [] name \in {"finish_request", "finalise_response"} -> {<<>>}
    [] OTHER -> BOOLEAN

\* callback.deref()(context, resource): the value returned and the context it leaves.
invoke(name, ctx, res) ==
  {[returns |-> r,
    context |-> [ctx EXCEPT !.redirect = @ \/ redirect,
                            !.response.body = IF body THEN Some("body") ELSE @],
    call |-> [callback |-> name, returns |-> r]] :
     r \in CallbackReturns(name, ctx, res),
     redirect \in IF name \in {"process_post", "create_path"} THEN BOOLEAN ELSE {FALSE},
     body \in IF name \in {"delete_resource", "process_post", "process_put",
                           "multiple_choices"}
             THEN BOOLEAN ELSE {FALSE}}

\* A decision's outcome: its result, the context it leaves and the callbacks it invoked.
Outcome(result, ctx, invoked) == [result |-> result, context |-> ctx, calls |-> invoked]

\* A decision that is the value of one boolean callback.
callback_decision(name, ctx, res) ==
  {Outcome(wrap(i.returns), i.context, <<i.call>>) : i \in invoke(name, ctx, res)}

\* header_values.iter().find(..).is_some() of resource_etag_matches_header_values:
\* TRUE or FALSE, or "panic" when the unwrap of weak_etag() meets None first.
etag_in_header_values(header_values, etag) ==
  LET unwrapped(weak) ==
        IF weak.some THEN IF weak.val = etag THEN "hit" ELSE "miss" ELSE "panic"
      test(val) == IF starts_with(val.value, "W/") THEN unwrapped(weak_etag(val))
                   ELSE IF val.value = etag THEN "hit" ELSE "miss"
      found(stop) == IF ~stop.some THEN wrap(FALSE)
                     ELSE IF test(stop.val) = "hit" THEN wrap(TRUE) ELSE Panic
  IN found(find(header_values, LAMBDA val : test(val) # "miss"))

resource_etag_matches_header_values(res, ctx, header) ==
  {Outcome(IF i.returns.some
           THEN etag_in_header_values(find_header(ctx.request, header), i.returns.val)
           ELSE False,
           i.context, <<i.call>>) : i \in invoke("generate_etag", ctx, res)}

\* A faulty variant: a resource modified at the date of the header counts as modified
\* after it.
last_modified_not_earlier(since, ctx, res) ==
  IF since.some
  THEN {Outcome(IF i.returns.some THEN wrap(i.returns.val >= since.val) ELSE False,
                i.context, <<i.call>>) : i \in invoke("last_modified", ctx, res)}
  ELSE {Outcome(False, ctx, <<>>)}

\* The last_modified comparison of H12LastModifiedGreaterThanUMS and
\* L17IfLastModifiedGreaterThanMS.
last_modified_greater_than(since, ctx, res) ==
  IF since.some
  THEN {Outcome(IF i.returns.some THEN wrap(i.returns.val > since.val) ELSE False,
                i.context, <<i.call>>) : i \in invoke("last_modified", ctx, res)}
  ELSE {Outcome(False, ctx, <<>>)}

\* A faulty variant: the location is not given to the response.
moved_decision_without_location(name, ctx, res) ==
  {IF i.returns.some THEN Outcome(True, i.context, <<i.call>>)
   ELSE Outcome(False, i.context, <<i.call>>) : i \in invoke(name, ctx, res)}

\* The callbacks that answer with a location.
moved_decision(name, ctx, res) ==
  {IF i.returns.some
   THEN Outcome(True,
                [i.context EXCEPT !.response =
                   add_header(@, "Location", <<basic(i.returns.val)>>)],
                <<i.call>>)
   ELSE Outcome(False, i.context, <<i.call>>) : i \in invoke(name, ctx, res)}

N11Redirect(ctx, res) ==
  UNION {IF c.returns
         THEN {IF i.returns.ok
               THEN LET path == i.returns.val
                        base_path == sanitise_path(i.context.request.base_path)
                        new_path == join_paths(base_path, sanitise_path(path))
                    IN Outcome(wrap(i.context.redirect),
                               [i.context EXCEPT
                                  !.request.request_path = path,
                                  !.response = add_header(@, "Location",
                                                          <<basic(new_path)>>)],
                               <<c.call, i.call>>)
               ELSE Outcome(StatusCode(i.returns.code), i.context, <<c.call, i.call>>) :
                 i \in invoke("create_path", c.context, res)}
         ELSE {IF i.returns.ok
               THEN Outcome(wrap(i.context.redirect), i.context, <<c.call, i.call>>)
               ELSE Outcome(StatusCode(i.returns.code), i.context, <<c.call, i.call>>) :
                 i \in invoke("process_post", c.context, res)} :
           c \in invoke("post_is_create", ctx, res)}

\* A faulty variant: a negotiation that finds nothing is passed.
negotiated_always(matched, ctx) == {Outcome(True, ctx, <<>>)}

\* The negotiation decisions: the match and what it leaves in the context.
negotiated(matched, ctx) ==
  IF matched.some THEN {Outcome(True, ctx, <<>>)} ELSE {Outcome(False, ctx, <<>>)}

in_methods(methods, request) ==
  find(methods, LAMBDA m : to_uppercase(m) = to_uppercase(request.method)).some

\* A faulty variant: the PUT is not recorded as creating a resource.
I7Put_unrecorded(ctx) ==
  IF is_put(ctx.request) THEN {Outcome(True, ctx, <<>>)} ELSE {Outcome(False, ctx, <<>>)}

I7Put(ctx) ==
  IF is_put(ctx.request)
  THEN {Outcome(True, [ctx EXCEPT !.new_resource = TRUE], <<>>)}
  ELSE {Outcome(False, ctx, <<>>)}

\* A faulty variant: the outcome is the boolean that process_put returned.
P11NewResource_by_result(ctx, res) ==
  IF is_put(ctx.request)
  THEN {IF i.returns.ok
        THEN Outcome(wrap(i.returns.val), i.context, <<i.call>>)
        ELSE Outcome(StatusCode(i.returns.code), i.context, <<i.call>>) :
          i \in invoke("process_put", ctx, res)}
  ELSE {Outcome(wrap(ctx.new_resource), ctx, <<>>)}

P11NewResource(ctx, res) ==
  IF is_put(ctx.request)
  THEN {IF i.returns.ok
        THEN Outcome(wrap(i.context.new_resource), i.context, <<i.call>>)
        ELSE Outcome(StatusCode(i.returns.code), i.context, <<i.call>>) :
          i \in invoke("process_put", ctx, res)}
  ELSE {Outcome(wrap(ctx.new_resource), ctx, <<>>)}

\* A faulty variant: a delete that was accepted but not enacted counts as enacted.
M20DeleteEnacted_any_ok(ctx, res) ==
  {IF i.returns.ok THEN Outcome(True, i.context, <<i.call>>)
   ELSE Outcome(StatusCode(i.returns.code), i.context, <<i.call>>) :
     i \in invoke("delete_resource", ctx, res)}

M20DeleteEnacted(ctx, res) ==
  {IF i.returns.ok THEN Outcome(wrap(i.returns.val), i.context, <<i.call>>)
   ELSE Outcome(StatusCode(i.returns.code), i.context, <<i.call>>) :
     i \in invoke("delete_resource", ctx, res)}

\* A faulty variant: the method is compared exactly and a refusal names no methods.
B10MethodAllowed_exact(ctx, res) ==
  IF find(res.allowed_methods, LAMBDA m : m = ctx.request.method).some
  THEN {Outcome(True, ctx, <<>>)} ELSE {Outcome(False, ctx, <<>>)}

B10MethodAllowed(ctx, res) ==
  IF in_methods(res.allowed_methods, ctx.request) THEN {Outcome(True, ctx, <<>>)}
  ELSE {Outcome(False,
                [ctx EXCEPT !.response =
                   add_header(@, "Allow", map(res.allowed_methods, basic))],
                <<>>)}

execute_decision(decision, ctx, res) ==
  LET node == decision.node
      request == ctx.request
      plain(result) == {Outcome(wrap(result), ctx, <<>>)}
  IN CASE node = "B10MethodAllowed" -> B10MethodAllowed(ctx, res)
       [] node = "B11UriTooLong" -> callback_decision("uri_too_long", ctx, res)
       [] node = "B12KnownMethod" -> plain(in_methods(res.known_methods, request))
       [] node = "B13Available" -> callback_decision("available", ctx, res)
       [] node = "B9MalformedRequest" -> callback_decision("malformed_request", ctx, res)
       [] node = "B8Authorized" ->
            {IF i.returns.some
             THEN Outcome(False,
                          [i.context EXCEPT !.response =
                             add_header(@, "WWW-Authenticate",
                                        <<parse_string(i.returns.val)>>)],
                          <<i.call>>)
             ELSE Outcome(True, i.context, <<i.call>>) :
               i \in invoke("not_authorized", ctx, res)}
       [] node = "B7Forbidden" -> callback_decision("forbidden", ctx, res)
       [] node = "B6UnsupportedContentHeader" ->
            callback_decision("unsupported_content_headers", ctx, res)
       [] node = "B5UnknownContentType" ->
            plain(is_put_or_post(request)
                  /\ ~find(res.acceptable_content_types,
                           LAMBDA ct : to_uppercase(content_type(request))
                                         = to_uppercase(ct)).some)
       [] node = "B4RequestEntityTooLarge" ->
            IF is_put_or_post(request)
            THEN {Outcome(wrap(~i.returns), i.context, <<i.call>>) :
                    i \in invoke("valid_entity_length", ctx, res)}
            ELSE plain(FALSE)
       [] node = "B3Options" -> plain(is_options(request))
       [] node = "C3AcceptExists" -> plain(has_accept_header(request))
       [] node = "C4AcceptableMediaTypeAvailable" ->
            LET media_type == matching_content_type(res, request)
            IN negotiated(media_type,
                          IF media_type.some
                          THEN [ctx EXCEPT !.selected_media_type = media_type] ELSE ctx)
       [] node = "D4AcceptLanguageExists" -> plain(has_accept_language_header(request))
       [] node = "D5AcceptableLanguageAvailable" ->
            LET language == matching_language(res, request)
            IN negotiated(language,
                          IF language.some /\ language # Some("*")
                          THEN [ctx EXCEPT
                                  !.selected_language = language,
                                  !.response = add_header(@, "Content-Language",
                                                 <<parse_string(language.val)>>)]
                          ELSE ctx)
       [] node = "E5AcceptCharsetExists" -> plain(has_accept_charset_header(request))
       [] node = "E6AcceptableCharsetAvailable" ->
            LET charset == matching_charset(res, request)
            IN negotiated(charset,
                          IF charset.some /\ charset # Some("*")
                          THEN [ctx EXCEPT !.selected_charset = charset] ELSE ctx)
       [] node = "F6AcceptEncodingExists" -> plain(has_accept_encoding_header(request))
       [] node = "F7AcceptableEncodingAvailable" ->
            LET encoding == matching_encoding(res, request)
            IN negotiated(encoding,
                          IF ~encoding.some THEN ctx
                          ELSE IF encoding = Some("identity")
                          THEN [ctx EXCEPT !.selected_encoding = encoding]
                          ELSE [ctx EXCEPT
                                  !.selected_encoding = encoding,
                                  !.response = add_header(@, "Content-Encoding",
                                                 <<parse_string(encoding.val)>>)])
       [] node = "G7ResourceExists" -> callback_decision("resource_exists", ctx, res)
       [] node = "G8IfMatchExists" -> plain(has_header(request, "If-Match"))
       [] node \in {"G9IfMatchStarExists", "H7IfMatchStarExists"} ->
            plain(has_header_value(request, "If-Match", "*"))
       [] node = "G11EtagInIfMatch" ->
            resource_etag_matches_header_values(res, ctx, "If-Match")
       [] node = "H10IfUnmodifiedSinceExists" ->
            plain(has_header(request, "If-Unmodified-Since"))
       [] node = "H11IfUnmodifiedSinceValid" ->
            LET v == validate_header_date(request, "If-Unmodified-Since",
                                          ctx.if_unmodified_since)
            IN {Outcome(wrap(v.valid), [ctx EXCEPT !.if_unmodified_since = v.meta], <<>>)}
       [] node = "H12LastModifiedGreaterThanUMS" ->
            last_modified_greater_than(ctx.if_unmodified_since, ctx, res)
       [] node = "I7Put" -> I7Put(ctx)
       [] node = "I12IfNoneMatchExists" -> plain(has_header(request, "If-None-Match"))
       [] node = "I13IfNoneMatchStarExists" ->
            plain(has_header_value(request, "If-None-Match", "*"))
       [] node = "J18GetHead" -> plain(is_get_or_head(request))
       [] node = "K7ResourcePreviouslyExisted" ->
            callback_decision("previously_existed", ctx, res)
       [] node = "K13ETagInIfNoneMatch" ->
            resource_etag_matches_header_values(res, ctx, "If-None-Match")
       [] node = "L5HasMovedTemporarily" -> moved_decision("moved_temporarily", ctx, res)
       [] node \in {"L7Post", "M5Post", "N16Post"} -> plain(is_post(request))
       [] node = "L13IfModifiedSinceExists" ->
            plain(has_header(request, "If-Modified-Since"))
       [] node = "L14IfModifiedSinceValid" ->
            LET v == validate_header_date(request, "If-Modified-Since",
                                          ctx.if_modified_since)
            IN {Outcome(wrap(v.valid), [ctx EXCEPT !.if_modified_since = v.meta], <<>>)}
       [] node = "L15IfModifiedSinceGreaterThanNow" ->
            IF ctx.if_modified_since.some
            THEN plain(ctx.if_modified_since.val > now)
            ELSE {Outcome(Panic, ctx, <<>>)}
       [] node = "L17IfLastModifiedGreaterThanMS" ->
            last_modified_greater_than(ctx.if_modified_since, ctx, res)
       [] node \in {"I4HasMovedPermanently", "K5HasMovedPermanently"} ->
            moved_decision("moved_permanently", ctx, res)
       [] node \in {"M7PostToMissingResource", "N5PostToMissingResource"} ->
            {IF i.returns
             THEN Outcome(True, [i.context EXCEPT !.new_resource = TRUE], <<i.call>>)
             ELSE Outcome(False, i.context, <<i.call>>) :
               i \in invoke("allow_missing_post", ctx, res)}
       [] node = "M16Delete" -> plain(is_delete(request))
       [] node = "M20DeleteEnacted" -> M20DeleteEnacted(ctx, res)
       [] node = "N11Redirect" -> N11Redirect(ctx, res)
       [] node \in {"P3Conflict", "O14Conflict"} ->
            callback_decision("is_conflict", ctx, res)
       [] node = "P11NewResource" -> P11NewResource(ctx, res)
       [] node = "O16Put" -> plain(is_put(request))
       [] node = "O18MultipleRepresentations" ->
            callback_decision("multiple_choices", ctx, res)
       [] node = "O20ResponseHasBody" -> plain(has_body(ctx.response))
       [] OTHER -> {Outcome(False, ctx, <<>>)}

(***************************************************************************)
(* The resource and the requests of a run                                  *)
(***************************************************************************)

\* WebmachineResource::default(): the fields that are not callbacks; finalise_response
\* is TRUE when the optional callback is present.
WebmachineResource_default ==
  [finalise_response |-> FALSE,
   known_methods |-> <<"OPTIONS", "GET", "POST", "PUT", "DELETE", "HEAD", "TRACE",
                       "CONNECT", "PATCH">>,
   allowed_methods |-> <<"OPTIONS", "GET", "HEAD">>,
   acceptable_content_types |-> <<"application/json">>,
   produces |-> <<"application/json">>,
   languages_provided |-> <<>>,
   charsets_provided |-> <<>>,
   encodings_provided |-> <<"identity">>,
   variances |-> <<>>]

MaxOverrides == 1
MaxHeaders == 1

\* The values a resource gives to a field in place of the default.
Overrides ==
  {<<"finalise_response", TRUE>>,
   <<"allowed_methods", <<"OPTIONS", "GET", "HEAD", "POST", "PUT", "DELETE">>>>,
   <<"produces", <<"text/html", "application/json">>>>,
   <<"languages_provided", <<"en", "da">>>>,
   <<"charsets_provided", <<"UTF-8", "US-ASCII">>>>,
   <<"encodings_provided", <<>>>>,
   <<"encodings_provided", <<"gzip", "identity">>>>,
   <<"variances", <<"Origin", "X-Requested-With">>>>,
   <<"variances", <<"Origin", "Origin">>>>}

\* The resources with at most n fields overridden.
RECURSIVE ResourcesWith(_)
ResourcesWith(n) ==
  IF n = 0 THEN {WebmachineResource_default}
  ELSE ResourcesWith(n - 1)
         \cup {[r EXCEPT ![o[1]] = o[2]] :
                 r \in ResourcesWith(n - 1), o \in Overrides}

Methods == {"GET", "HEAD", "POST", "PUT", "DELETE", "OPTIONS", "put", "BREW"}

Date(second) == EpochPrefix \o second \o " GMT"

\* The headers a request may carry: a name with the values parsed by the transport
\* (parse_header_values) or put in the request by the caller of dispatch_to_resource.
HeaderChoices ==
  {<<"Accept", parse_header_values("application/json;q=0.8, */*;q=0.1")>>,
   <<"Accept", parse_header_values("text/html")>>,
   <<"Accept-Language", parse_header_values("da, en-gb;q=0.8")>>,
   <<"Accept-Language", parse_header_values("*;q=0")>>,
   <<"Accept-Charset", parse_header_values("utf-8, *;q=0")>>,
   <<"Accept-Charset", parse_header_values("*;q=0")>>,
   <<"Accept-Encoding", parse_header_values("gzip, identity;q=0.5")>>,
   <<"Accept-Encoding", parse_header_values("identity;q=0, *;q=0")>>,
   <<"Accept-Encoding", <<>>>>,
   <<"If-Match", parse_header_values("\"*\"")>>,
   <<"If-Match", parse_header_values("\"1234567890\"")>>,
   <<"If-Match", parse_header_values("W/\"1234567890\", \"other\"")>>,
   <<"If-Match", parse_header_values("W/\"other\", \"another\"")>>,
   <<"If-Unmodified-Since", <<basic(Date("1"))>>>>,
   <<"If-Unmodified-Since", <<basic(Date("3"))>>>>,
   <<"If-Unmodified-Since", parse_header_values(Date("1"))>>,
   <<"If-None-Match", parse_header_values("*")>>,
   <<"If-None-Match", parse_header_values("W/\"1234567890\"")>>,
   <<"If-None-Match", parse_header_values("\"other\"")>>,
   <<"If-Modified-Since", <<basic(Date("1"))>>>>,
   <<"If-Modified-Since", <<basic(Date("3"))>>>>,
   <<"If-Modified-Since", <<basic("yesterday")>>>>,
   <<"content-type", parse_header_values("application/xml")>>,
   <<"Content-Type", parse_header_values("application/json;charset=UTF-8")>>}

\* The header maps with at most n names, no name twice in any casing.
RECURSIVE HeaderMaps(_)
HeaderMaps(n) ==
  IF n = 0 THEN {<<>>}
  ELSE HeaderMaps(n - 1)
         \cup UNION {{insert(m, c[1], c[2]) :
                        c \in {x \in HeaderChoices : ~find_key(m, x[1]).some}} :
                       m \in HeaderMaps(n - 1)}

\* The base paths of the resources that are not mounted at the root.
BasePaths == {"/base/path"}

\* The requests to a resource at the root, with their headers, and the requests
\* without headers to a resource mounted at a base path.
Requests ==
  {[WebmachineRequest_default EXCEPT !.method = method, !.headers = headers] :
     method \in Methods, headers \in HeaderMaps(MaxHeaders)}
    \cup {[WebmachineRequest_default EXCEPT !.method = method, !.base_path = base_path] :
            method \in Methods, base_path \in BasePaths}

(***************************************************************************)
(* src/lib.rs: execute_state_machine and finalise_response                 *)
(***************************************************************************)

Init ==
  /\ context \in {[WebmachineContext_default EXCEPT !.request = request] :
                    request \in Requests}
  /\ resource \in ResourcesWith(MaxOverrides)
  /\ transition_map = TRANSITION_MAP
  /\ state = Decision("Start")
  /\ loop_count = 0
  /\ decisions = <<>>
  /\ calls = <<>>
  /\ now = 2
  /\ pc = "execute_state_machine"
  /\ converted = NoHeader
  /\ threads = <<>>
  /\ routes = <<>>

\* One turn of the while loop: the counter and its cap, the table lookup, the decision.
\* A panic leaves the request where it is, with no response produced.
loop_turn(p, res, table) ==
  IF p.loop_count + 1 >= MAX_STATE_MACHINE_TRANSITIONS
  THEN {[p EXCEPT !.loop_count = @ + 1, !.pc = "panicked"]}
  ELSE IF p.state.node \notin DOMAIN table
  THEN {[p EXCEPT !.loop_count = @ + 1,
                  !.decisions = Append(@, <<p.state, FALSE, End(500)>>),
                  !.state = End(500)]}
  ELSE IF table[p.state.node].kind = "To"
  THEN {[p EXCEPT !.loop_count = @ + 1, !.state = table[p.state.node].on_true]}
  ELSE {IF o.result.kind = "Panic"
        THEN [p EXCEPT !.loop_count = @ + 1, !.context = o.context,
                       !.calls = @ \o o.calls, !.pc = "panicked"]
        ELSE [p EXCEPT !.loop_count = @ + 1, !.context = o.context,
                       !.calls = @ \o o.calls,
                       !.decisions =
                         Append(@, <<p.state, o.result.kind = "True",
                                     CASE o.result.kind = "True" -> table[p.state.node].on_true
                                       [] o.result.kind = "False" ->
                                            table[p.state.node].on_false
                                       [] OTHER -> End(o.result.code)>>),
                       !.state =
                         CASE o.result.kind = "True" -> table[p.state.node].on_true
                           [] o.result.kind = "False" -> table[p.state.node].on_false
                           [] OTHER -> End(o.result.code)] :
          o \in execute_decision(p.state, p.context, res)}

Transition ==
  /\ pc = "execute_state_machine"
  /\ ~is_terminal(state)
  /\ UNCHANGED <<resource, transition_map, now, converted, threads, routes>>
  /\ \E p \in loop_turn([context |-> context, state |-> state, loop_count |-> loop_count,
                          decisions |-> decisions, calls |-> calls, pc |-> pc],
                         resource, transition_map) :
       /\ context' = p.context
       /\ state' = p.state
       /\ loop_count' = p.loop_count
       /\ decisions' = p.decisions
       /\ calls' = p.calls
       /\ pc' = p.pc

\* After the loop: the final state gives the status; A3Options adds the options headers.
loop_exit(p, res) ==
  IF p.state.node = "End"
  THEN {[p EXCEPT !.pc = "finalise_response", !.context.response.status = p.state.status]}
  ELSE {[p EXCEPT !.pc = "finalise_response",
                  !.context = IF i.returns.some
                              THEN [i.context EXCEPT
                                      !.response = add_headers(@, i.returns.val)]
                              ELSE i.context,
                  !.calls = Append(@, i.call)] :
          i \in invoke("options", [p.context EXCEPT !.response.status = 204], res)}

Terminate ==
  /\ pc = "execute_state_machine"
  /\ is_terminal(state)
  /\ UNCHANGED <<resource, transition_map, state, loop_count, decisions, now, converted,
                 threads, routes>>
  /\ \E p \in loop_exit([context |-> context, state |-> state, loop_count |-> loop_count,
                          decisions |-> decisions, calls |-> calls, pc |-> pc],
                         resource) :
       /\ context' = p.context
       /\ calls' = p.calls
       /\ pc' = p.pc

\* Itertools::unique: the first occurrence of every value is kept.
unique(values) ==
  LET kept[i \in 0..Len(values)] ==
        IF i = 0 THEN <<>>
        ELSE IF find(kept[i - 1], LAMBDA h : header_eq(h, values[i])).some
        THEN kept[i - 1]
        ELSE Append(kept[i - 1], values[i])
  IN kept[Len(values)]

\* A faulty variant: the header is added whether or not the response has one.
with_content_type_always(ctx) ==
  [ctx EXCEPT !.response =
     add_header(@, "Content-Type",
                <<[value |-> IF ctx.selected_media_type.some
                             THEN ctx.selected_media_type.val ELSE "application/json",
                   params |-> [charset |-> IF ctx.selected_charset.some
                                           THEN ctx.selected_charset.val
                                           ELSE "ISO-8859-1"],
                   quote |-> FALSE]>>)]

with_content_type(ctx) ==
  IF response_has_header(ctx.response, "Content-Type") THEN ctx
  ELSE LET media_type == IF ctx.selected_media_type.some
                         THEN ctx.selected_media_type.val ELSE "application/json"
           charset == IF ctx.selected_charset.some
                      THEN ctx.selected_charset.val ELSE "ISO-8859-1"
       IN [ctx EXCEPT !.response =
             add_header(@, "Content-Type",
                        <<[value |-> media_type, params |-> [charset |-> charset],
                           quote |-> FALSE]>>)]

\* A faulty variant: the entries are counted after the duplicates are removed.
with_vary_counted_unique(ctx, res) ==
  LET added(vary_header) ==
        IF Len(unique(vary_header)) > 1
        THEN [ctx EXCEPT !.response = add_header(@, "Vary", unique(vary_header))]
        ELSE ctx
  IN added((IF ~response_has_header(ctx.response, "Vary")
            THEN map(res.variances, parse_string) ELSE <<>>)
           \o (IF Len(res.languages_provided) > 1 THEN <<parse_string("Accept-Language")>>
               ELSE <<>>)
           \o (IF Len(res.charsets_provided) > 1 THEN <<parse_string("Accept-Charset")>>
               ELSE <<>>)
           \o (IF Len(res.encodings_provided) > 1 THEN <<parse_string("Accept-Encoding")>>
               ELSE <<>>)
           \o (IF Len(res.produces) > 1 THEN <<parse_string("Accept")>> ELSE <<>>))

with_vary(ctx, res) ==
  LET vary_header ==
        (IF ~response_has_header(ctx.response, "Vary")
         THEN map(res.variances, parse_string) ELSE <<>>)
        \o (IF Len(res.languages_provided) > 1 THEN <<parse_string("Accept-Language")>>
            ELSE <<>>)
        \o (IF Len(res.charsets_provided) > 1 THEN <<parse_string("Accept-Charset")>>
            ELSE <<>>)
        \o (IF Len(res.encodings_provided) > 1 THEN <<parse_string("Accept-Encoding")>>
            ELSE <<>>)
        \o (IF Len(res.produces) > 1 THEN <<parse_string("Accept")>> ELSE <<>>)
  IN IF Len(vary_header) > 1
     THEN [ctx EXCEPT !.response = add_header(@, "Vary", unique(vary_header))]
     ELSE ctx

\* A header that a callback's optional value gives to the response.
with_optional_header(i, header, value(_)) ==
  IF i.returns.some
  THEN [i.context EXCEPT !.response =
          add_header(@, header, <<quote(basic(value(i.returns.val)))>>)]
  ELSE i.context

finalised(p, res) ==
  LET varied == with_vary(with_content_type(p.context), res)
      validators ==
        IF is_get_or_head(varied.request)
        THEN UNION UNION
               {{{[context |-> with_optional_header(l, "Last-Modified", to_rfc2822),
                   calls |-> <<e.call, x.call, l.call>>] :
                    l \in invoke("last_modified",
                                 with_optional_header(x, "Expires", to_rfc2822), res)} :
                   x \in invoke("expires",
                                with_optional_header(e, "ETag", LAMBDA etag : etag), res)} :
                  e \in invoke("generate_etag", varied, res)}
        ELSE {[context |-> varied, calls |-> <<>>]}
      rendered(v) ==
        IF ~v.context.response.body.some /\ v.context.response.status = 200
           /\ is_get(v.context.request)
        THEN {[context |-> IF i.returns.some
                           THEN [i.context EXCEPT !.response.body = i.returns]
                           ELSE i.context,
               calls |-> v.calls \o <<i.call>>] :
                i \in invoke("render_response", v.context, res)}
        ELSE {v}
      called_back(r) ==
        IF res.finalise_response
        THEN {[context |-> i.context, calls |-> r.calls \o <<i.call>>] :
                i \in invoke("finalise_response", r.context, res)}
        ELSE {r}
  IN {[p EXCEPT !.pc = "done", !.context = f.context, !.calls = @ \o f.calls] :
        f \in UNION {called_back(r) : r \in UNION {rendered(v) : v \in validators}}}

FinaliseResponse ==
  /\ pc = "finalise_response"
  /\ UNCHANGED <<resource, transition_map, state, loop_count, decisions, now, converted,
                 threads, routes>>
  /\ \E p \in finalised([context |-> context, state |-> state, loop_count |-> loop_count,
                          decisions |-> decisions, calls |-> calls, pc |-> pc],
                         resource) :
       /\ context' = p.context
       /\ calls' = p.calls
       /\ pc' = p.pc

Next == Transition \/ Terminate \/ FinaliseResponse

Spec == Init /\ [][Next]_vars

\* A misconfigured table in place of the shipped one, for the default request and
\* the default resource.
InitCap ==
  /\ context = WebmachineContext_default
  /\ resource = WebmachineResource_default
  /\ transition_map \in {CyclicTransitionMap,
                         hashmap({<<"Start", To(Decision("B13Available"))>>})}
  /\ state = Decision("Start")
  /\ loop_count = 0
  /\ decisions = <<>>
  /\ calls = <<>>
  /\ now = 2
  /\ pc = "execute_state_machine"
  /\ converted = NoHeader
  /\ threads = <<>>
  /\ routes = <<>>

SpecCap == InitCap /\ [][Next]_vars

(***************************************************************************)
(* Content negotiation: GET requests with one Accept, Accept-Language,     *)
(* Accept-Charset or Accept-Encoding header, or none, to resources that    *)
(* set the list the header is matched against.                             *)
(***************************************************************************)

\* HeadersOf(name, texts): the maps with the header name, one for each text, and the
\* empty map.
NegotiationInputs ==
  LET HeadersOf(name, texts) ==
        {<<>>} \cup {insert(<<>>, name, parse_header_values(text)) : text \in texts}
  IN
  {<<headers, [WebmachineResource_default EXCEPT !.produces = produces]>> :
     headers \in HeadersOf("Accept",
                   {"application/json;q=0", "text/html;q=0, application/json", "*/*",
                    "text/*, application/json", "application/xml",
                    "text/*;q=0.5, */*;q=0.1", "application/json, text/html"}),
     produces \in {<<"application/json">>, <<"text/html", "application/json">>,
                   <<"application/json", "text/html">>, <<"text/plain", "text/html">>}}
  \cup
  {<<headers, [WebmachineResource_default EXCEPT !.languages_provided = languages]>> :
     headers \in HeadersOf("Accept-Language",
                   {"en-gb;q=0", "*;q=0", "en;q=0, *", "en-gb", "enfoo", "en",
                    "da, en-gb;q=0.8", "en;q=0, da", "en-gb, en;q=0"}),
     languages \in {<<>>, <<"en">>, <<"e">>, <<"en", "da">>, <<"da", "en-gb">>}}
  \cup
  {<<headers, [WebmachineResource_default EXCEPT !.charsets_provided = charsets]>> :
     headers \in HeadersOf("Accept-Charset",
                   {"iso-8859-5, iso-8859-1;q=0", "iso-8859-5", "utf-8;q=0, *",
                    "*;q=0", "utf-8, *;q=0", "ISO-8859-1;q=0.5, utf-8", "us-ascii;q=0.5"}),
     charsets \in {<<>>, <<"UTF-8", "US-ASCII">>, <<"ISO-8859-1">>,
                   <<"US-ASCII", "iso-8859-1">>}}
  \cup
  {<<headers, [WebmachineResource_default EXCEPT !.encodings_provided = encodings]>> :
     headers \in HeadersOf("Accept-Encoding",
                   {"gzip;q=0", "*;q=0", "gzip", "identity;q=0", "identity;q=0, *",
                    "gzip;q=0.5, identity;q=0.2", "compress, *;q=0", "gzip;q=0.5"}),
     encodings \in {<<>>, <<"identity">>, <<"gzip">>, <<"gzip", "identity">>,
                    <<"compress", "gzip">>}}
  \cup
  {<<[name \in {"Accept", "Accept-Language", "Accept-Charset", "Accept-Encoding"} |->
        parse_header_values(CASE name = "Accept" -> media_type
                              [] name = "Accept-Language" -> language
                              [] name = "Accept-Charset" -> charset
                              [] OTHER -> encoding)],
     [WebmachineResource_default EXCEPT
        !.languages_provided = <<"en", "da">>, !.charsets_provided = <<"UTF-8">>,
        !.encodings_provided = <<"gzip", "identity">>]>> :
     media_type \in {"application/json", "text/html"}, language \in {"da", "fr"},
     charset \in {"utf-8", "us-ascii"}, encoding \in {"gzip", "compress, identity;q=0"}}

InitNegotiation ==
  /\ \E input \in NegotiationInputs :
       /\ context = [WebmachineContext_default EXCEPT !.request.headers = input[1]]
       /\ resource = input[2]
  /\ transition_map = TRANSITION_MAP
  /\ state = Decision("Start")
  /\ loop_count = 0
  /\ decisions = <<>>
  /\ calls = <<>>
  /\ now = 2
  /\ pc = "execute_state_machine"
  /\ converted = NoHeader
  /\ threads = <<>>
  /\ routes = <<>>

SpecNegotiation == InitNegotiation /\ [][Next]_vars

(***************************************************************************)
(* src/headers.rs: HeaderValue::parse_string and HeaderValue::to_string,   *)
(* applied in turn to the text of a header.                                *)
(***************************************************************************)

\* HeaderValue::to_string: the parameters are written as name=value in the order the
\* HashMap yields them, which is any order, and joined with "; ".
to_string(self) ==
  LET sparams(order) ==
        join([i \in DOMAIN order |-> order[i] \o "=" \o self.params[order[i]]], "; ")
  IN {IF self.quote
      THEN IF sparams(order) = "" THEN "\"" \o self.value \o "\""
           ELSE "\"" \o self.value \o "\"; " \o sparams(order)
      ELSE IF DOMAIN self.params = {} THEN self.value
           ELSE self.value \o "; " \o sparams(order) :
        order \in {o \in [1..Cardinality(DOMAIN self.params) -> DOMAIN self.params] :
                     \A i, j \in DOMAIN o : o[i] = o[j] => i = j}}

\* The header texts: a value with no, one or two parameters.
HeaderTexts ==
  LET parameter ==
        {"q=0.5", "charset=UTF-8", "a=\"x;y\"", "b=\"p,q\"", "c=\"k=v\"",
         "d=\"say \\\"hi\\\"\""}
  IN {value \o parameters :
        value \in {"text/html", "W/\"1234567890\"", "\"a;b\"", "en"},
        parameters \in {""} \cup {";" \o a : a \in parameter}
                         \cup {";" \o pair[1] \o "; " \o pair[2] :
                                 pair \in {x \in parameter \X parameter : x[1] # x[2]}}}

InitHeaders ==
  /\ context = WebmachineContext_default
  /\ resource = WebmachineResource_default
  /\ transition_map = TRANSITION_MAP
  /\ state = Decision("Start")
  /\ loop_count = 0
  /\ decisions = <<>>
  /\ calls = <<>>
  /\ now = 2
  /\ pc = "headers"
  /\ threads = <<>>
  /\ routes = <<>>
  /\ converted \in {[NoHeader EXCEPT !.step = "text", !.text = text] : text \in HeaderTexts}

\* HeaderValue::parse_string on the text; the first value parsed is kept.
ParseString ==
  /\ pc = "headers"
  /\ converted.step \in {"text", "formatted"}
  /\ converted' = [converted EXCEPT
                  !.step = IF converted.step = "text" THEN "parsed" ELSE "reparsed",
                  !.value = parse_string(converted.text),
                  !.original = IF converted.step = "text" THEN parse_string(converted.text)
                               ELSE @]
  /\ UNCHANGED <<context, resource, transition_map, state, loop_count, decisions, calls,
                 now, pc, threads, routes>>

\* HeaderValue::quote on the value parsed.
Quote ==
  /\ pc = "headers"
  /\ converted.step = "parsed"
  /\ ~converted.value.quote
  /\ converted' = [converted EXCEPT !.value = quote(@)]
  /\ UNCHANGED <<context, resource, transition_map, state, loop_count, decisions, calls,
                 now, pc, threads, routes>>

\* HeaderValue::to_string on the value.
HeaderToString ==
  /\ pc = "headers"
  /\ converted.step = "parsed"
  /\ \E text \in to_string(converted.value) :
       converted' = [converted EXCEPT !.step = "formatted", !.text = text]
  /\ UNCHANGED <<context, resource, transition_map, state, loop_count, decisions, calls,
                 now, pc, threads, routes>>

SpecHeaders == InitHeaders /\ [][ParseString \/ Quote \/ HeaderToString]_vars

(***************************************************************************)
(* src/lib.rs: requests served at the same time.  Service::call gives each *)
(* request a future of its own over a clone of the dispatcher; the context *)
(* is a local of dispatch, the resource and its callbacks are shared, and  *)
(* a callback is invoked under the lock of its Mutex.                      *)
(***************************************************************************)

\* WebmachineResource::default(): what a callback returns when the resource keeps it.
default_callback(name, request, res) ==
  CASE name \in {"available", "valid_entity_length", "resource_exists"} -> TRUE
    [] name \in {"not_authorized", "moved_permanently", "moved_temporarily",
                 "generate_etag", "last_modified", "expires", "render_response"} -> None
    [] name = "options" -> Some(cors_headers(res.allowed_methods))
    [] name \in {"delete_resource", "process_put"} -> Ok(TRUE)
    [] name = "process_post" -> Ok(FALSE)
    [] name = "create_path" -> Ok(request.request_path)
    [] name \in {"finish_request", "finalise_response"} -> <<>>
    [] OTHER -> FALSE

\* What a request does next, on its own: a turn of the loop, the end of the loop or
\* finalise_response.  The shared resource replaces the callbacks that act on the
\* context, post_is_create and resource_exists, and keeps the default of the others.
steps(p, res, table) ==
  {n \in IF p.pc = "finalise_response" THEN finalised(p, res)
         ELSE IF p.pc # "execute_state_machine" THEN {}
         ELSE IF is_terminal(p.state) THEN loop_exit(p, res)
         ELSE loop_turn(p, res, table) :
     \A i \in Len(p.calls) + 1 .. Len(n.calls) :
       \/ n.calls[i].callback \in {"resource_exists", "post_is_create", "create_path",
                                   "process_post", "process_put", "delete_resource",
                                   "multiple_choices"}
       \/ n.calls[i].returns = default_callback(n.calls[i].callback, p.context.request, res)}

\* A faulty variant: the guards of a step are kept to the end of the step, whatever
\* the step.
locked_to_the_end(thread) ==
  IF thread.held = 0 THEN {}
  ELSE {thread.next.calls[Len(thread.p.calls) + i].callback : i \in 1 .. thread.held}

\* The callbacks whose Mutex a thread holds: of the callbacks of its step, the one it is
\* in; N11Redirect keeps the guard of post_is_create while it locks create_path or
\* process_post.
locked(thread) ==
  IF thread.held = 0 THEN {}
  ELSE {thread.next.calls[Len(thread.p.calls) + i].callback :
          i \in IF thread.p.pc = "execute_state_machine"
                   /\ thread.p.state.node = "N11Redirect"
                THEN 1 .. thread.held ELSE {thread.held}}

InitConcurrent ==
  /\ context = WebmachineContext_default
  /\ resource = [WebmachineResource_default EXCEPT
                   !.allowed_methods = <<"GET", "POST", "DELETE">>]
  /\ transition_map = TRANSITION_MAP
  /\ state = Decision("Start")
  /\ loop_count = 0
  /\ decisions = <<>>
  /\ calls = <<>>
  /\ now = 2
  /\ pc = "call"
  /\ converted = NoHeader
  /\ routes = <<>>
  /\ threads \in [1 .. 2 ->
                   {[p |-> [context |-> [WebmachineContext_default EXCEPT
                                           !.request.method = method],
                            state |-> Decision("Start"), loop_count |-> 0,
                            decisions |-> <<>>, calls |-> <<>>,
                            pc |-> "execute_state_machine"],
                     next |-> <<>>, held |-> 0] : method \in {"GET", "POST", "DELETE"}}]

\* A faulty variant: the threads write to one response, as if the context were shared.
dispatch_shared_response(t) ==
  /\ UNCHANGED <<context, resource, transition_map, state, loop_count, decisions, calls,
                 now, pc, converted, routes>>
  /\ \/ /\ threads[t].held = 0
        /\ \E n \in steps(threads[t].p, resource, transition_map) :
             IF Len(n.calls) = Len(threads[t].p.calls)
             THEN threads' = [threads EXCEPT ![t].p = n]
             ELSE /\ \A other \in DOMAIN threads :
                       n.calls[Len(threads[t].p.calls) + 1].callback
                         \notin locked(threads[other])
                  /\ threads' = [threads EXCEPT ![t].next = n, ![t].held = 1]
     \/ /\ threads[t].held > 0
        /\ Len(threads[t].p.calls) + threads[t].held < Len(threads[t].next.calls)
        /\ \A other \in DOMAIN threads :
             threads[t].next.calls[Len(threads[t].p.calls) + threads[t].held + 1].callback
               \notin locked(threads[other])
        /\ threads' = [threads EXCEPT ![t].held = @ + 1]
     \/ /\ threads[t].held > 0
        /\ Len(threads[t].p.calls) + threads[t].held = Len(threads[t].next.calls)
        /\ threads' = [u \in DOMAIN threads |->
                         IF u = t THEN [p |-> threads[t].next, next |-> <<>>, held |-> 0]
                         ELSE [threads[u] EXCEPT
                                 !.p.context.response = threads[t].next.context.response]]

\* A thread goes on with its request: it takes the lock of the first callback of its
\* step when no thread holds it (a step without callbacks is made at once), then the
\* lock of the next callback, and at the end of the step it lets go of its locks.
dispatch(t) ==
  /\ UNCHANGED <<context, resource, transition_map, state, loop_count, decisions, calls,
                 now, pc, converted, routes>>
  /\ \/ /\ threads[t].held = 0
        /\ \E n \in steps(threads[t].p, resource, transition_map) :
             IF Len(n.calls) = Len(threads[t].p.calls)
             THEN threads' = [threads EXCEPT ![t].p = n]
             ELSE /\ \A other \in DOMAIN threads :
                       n.calls[Len(threads[t].p.calls) + 1].callback
                         \notin locked(threads[other])
                  /\ threads' = [threads EXCEPT ![t].next = n, ![t].held = 1]
     \/ /\ threads[t].held > 0
        /\ Len(threads[t].p.calls) + threads[t].held < Len(threads[t].next.calls)
        /\ \A other \in DOMAIN threads :
             threads[t].next.calls[Len(threads[t].p.calls) + threads[t].held + 1].callback
               \notin locked(threads[other])
        /\ threads' = [threads EXCEPT ![t].held = @ + 1]
     \/ /\ threads[t].held > 0
        /\ Len(threads[t].p.calls) + threads[t].held = Len(threads[t].next.calls)
        /\ threads' = [threads EXCEPT ![t] = [p |-> threads[t].next, next |-> <<>>,
                                              held |-> 0]]

SpecConcurrent == InitConcurrent /\ [][\E t \in DOMAIN threads : dispatch(t)]_vars

\* The thread can go on: dispatch(t) is enabled.  Its next step has no callback, or
\* the lock it takes next is free, or it is at the end of its step.
CanGoOn(t) ==
  \/ /\ threads[t].held = 0
     /\ \E n \in steps(threads[t].p, resource, transition_map) :
          \/ Len(n.calls) = Len(threads[t].p.calls)
          \/ \A other \in DOMAIN threads :
               n.calls[Len(threads[t].p.calls) + 1].callback \notin locked(threads[other])
  \/ /\ threads[t].held > 0
     /\ Len(threads[t].p.calls) + threads[t].held < Len(threads[t].next.calls)
     /\ \A other \in DOMAIN threads :
          threads[t].next.calls[Len(threads[t].p.calls) + threads[t].held + 1].callback
            \notin locked(threads[other])
  \/ /\ threads[t].held > 0
     /\ Len(threads[t].p.calls) + threads[t].held = Len(threads[t].next.calls)

\* The requests under a fair scheduler: weak fairness of dispatch(t) for each thread,
\* which is WF_vars(dispatch(t)) with ENABLED written as CanGoOn(t).  A thread that
\* can go on from some point on does go on.
SpecConcurrentFair ==
  /\ SpecConcurrent
  /\ \A t \in {1, 2} : []<>~CanGoOn(t) \/ []<><<dispatch(t)>>_vars

(***************************************************************************)
(* src/lib.rs: WebmachineDispatcher.  The routes are a BTreeMap, modelled   *)
(* as the sequence of its entries in the order of their keys.              *)
(***************************************************************************)

update_paths_for_resource(request, base_path) ==
  [request EXCEPT
     !.base_path = base_path,
     !.request_path =
       IF Len(@) <= Len(base_path) THEN "/"
       ELSE IF starts_with(SubSeq(@, Len(base_path) + 1, Len(@)), "/")
       THEN SubSeq(@, Len(base_path) + 1, Len(@))
       ELSE "/" \o SubSeq(@, Len(base_path) + 1, Len(@))]

match_paths(self, request) ==
  map(filter(self, LAMBDA route : starts_with(sanitise_path(request.request_path),
                                              sanitise_path(route.path))),
      LAMBDA route : route.path)

\* matching_paths.iter().cloned().sorted_by(|a, b| Ord::cmp(&b.len(), &a.len()))
ordered_by_length(self, request) ==
  sorted_by(match_paths(self, request), LAMBDA a, b : Len(a) > Len(b))

\* The request paths of the runs and the routes of the dispatchers: those of
\* path_matcher_test, the one of dispatcher_returns_404_if_there_is_no_matching_resource
\* and a dispatcher with a route that ends with a slash.
InitDispatch ==
  /\ context \in {[WebmachineContext_default EXCEPT !.request.request_path = path,
                                                    !.request.method = method] :
                    path \in {"/", "/path1", "/path1/", "/path1/path3",
                              "/path1/path3/path4", "/path1/other", "/path12", "/path2",
                              "/some/path/", "//path1/path3", "/path1//other"},
                    method \in {"GET", "BREW"}}
  /\ routes \in
       {<<[path |-> "/", resource |-> WebmachineResource_default],
          [path |-> "/path1",
           resource |-> [WebmachineResource_default EXCEPT !.finalise_response = TRUE]],
          [path |-> "/path1/path3",
           resource |-> [WebmachineResource_default EXCEPT
                           !.produces = <<"text/html">>]],
          [path |-> "/path2",
           resource |-> [WebmachineResource_default EXCEPT
                           !.produces = <<"text/html">>, !.finalise_response = TRUE]]>>,
        <<[path |-> "/some/path",
           resource |-> [WebmachineResource_default EXCEPT !.finalise_response = TRUE]]>>,
        <<[path |-> "/path1",
           resource |-> [WebmachineResource_default EXCEPT !.finalise_response = TRUE]],
          [path |-> "/path1/", resource |-> WebmachineResource_default]>>}
  /\ resource = WebmachineResource_default
  /\ transition_map = TRANSITION_MAP
  /\ state = Decision("Start")
  /\ loop_count = 0
  /\ decisions = <<>>
  /\ calls = <<>>
  /\ now = 2
  /\ pc = "dispatch_to_resource"
  /\ converted = NoHeader
  /\ threads = <<>>

\* dispatch_to_resource up to the call of execute_state_machine: the route, the paths
\* of the request and the resource of the route, or 404 when no route matches.
DispatchToResource ==
  /\ pc = "dispatch_to_resource"
  /\ UNCHANGED <<transition_map, state, loop_count, decisions, calls, now, converted,
                 threads, routes>>
  /\ IF ordered_by_length(routes, context.request) = <<>>
     THEN /\ context' = [context EXCEPT !.response.status = 404]
          /\ resource' = resource
          /\ pc' = "done"
     ELSE /\ context' = [context EXCEPT
                           !.request = update_paths_for_resource(
                                         @, ordered_by_length(routes, context.request)[1])]
          /\ resource' = routes[CHOOSE i \in DOMAIN routes :
                                  routes[i].path
                                    = ordered_by_length(routes, context.request)[1]].resource
          /\ pc' = "execute_state_machine"

SpecDispatch == InitDispatch /\ [][DispatchToResource \/ Next]_vars

(***************************************************************************)
(* Properties                                                              *)
(***************************************************************************)

\* execute_state_machine has returned.
Returned == pc \in {"finalise_response", "done"}

Evaluated(node) == \E i \in DOMAIN decisions : decisions[i][1].node = node

\* The callback was invoked and gave this value.
Answered(name, value) ==
  \E i \in DOMAIN calls : calls[i].callback = name /\ calls[i].returns = value

Invoked(name) == \E i \in DOMAIN calls : calls[i].callback = name

\* C1: every request reaches a terminal decision (End or A3Options) after fewer than
\* 100 transitions: the counter, which every turn of the loop increments, stays below
\* the cap; a decision that is not terminal has an entry and an outcome, so the loop
\* can take its next turn; and the loop is left only at a terminal decision.
C1_TerminatesBelowCap ==
  /\ loop_count < MAX_STATE_MACHINE_TRANSITIONS
  /\ (pc = "execute_state_machine" /\ ~is_terminal(state) =>
        /\ loop_count + 1 < MAX_STATE_MACHINE_TRANSITIONS
        /\ state.node \in DOMAIN transition_map
        /\ execute_decision(state, context, resource) # {})
  /\ (pc # "execute_state_machine" => is_terminal(state))

C1_LongRun == Returned /\ loop_count >= 30

\* C2: the state machine and finalise_response never abort and leave the status of
\* the final decision in the response; L15IfModifiedSinceGreaterThanNow is only
\* reached with if_modified_since set.
C2_NeverAborts ==
  /\ pc # "panicked"
  /\ (state.node = "L15IfModifiedSinceGreaterThanNow" => context.if_modified_since.some)
  /\ (Returned =>
        context.response.status = IF state.node = "End" THEN state.status ELSE 204)

C2_DateCompared ==
  /\ pc = "done"
  /\ Evaluated("L15IfModifiedSinceGreaterThanNow")
  /\ Evaluated("L17IfLastModifiedGreaterThanMS")

\* C3: when the transitions reach the cap the request still ends with a response,
\* whose status is 500; it does not abort.
C3_CapGives500 ==
  loop_count >= MAX_STATE_MACHINE_TRANSITIONS =>
    /\ pc # "panicked"
    /\ (Returned => context.response.status = 500)

\* The transition table of the specification, row by row.
SpecifiedTransitions ==
  {<<"Start", To(Decision("B13Available"))>>,
   <<"B13Available", Branch(Decision("B12KnownMethod"), End(503))>>,
   <<"B12KnownMethod", Branch(Decision("B11UriTooLong"), End(501))>>,
   <<"B11UriTooLong", Branch(End(414), Decision("B10MethodAllowed"))>>,
   <<"B10MethodAllowed", Branch(Decision("B9MalformedRequest"), End(405))>>,
   <<"B9MalformedRequest", Branch(End(400), Decision("B8Authorized"))>>,
   <<"B8Authorized", Branch(Decision("B7Forbidden"), End(401))>>,
   <<"B7Forbidden", Branch(End(403), Decision("B6UnsupportedContentHeader"))>>,
   <<"B6UnsupportedContentHeader", Branch(End(501), Decision("B5UnknownContentType"))>>,
   <<"B5UnknownContentType", Branch(End(415), Decision("B4RequestEntityTooLarge"))>>,
   <<"B4RequestEntityTooLarge", Branch(End(413), Decision("B3Options"))>>,
   <<"B3Options", Branch(Decision("A3Options"), Decision("C3AcceptExists"))>>,
   <<"C3AcceptExists", Branch(Decision("C4AcceptableMediaTypeAvailable"), Decision("D4AcceptLanguageExists"))>>,
   <<"C4AcceptableMediaTypeAvailable", Branch(Decision("D4AcceptLanguageExists"), End(406))>>,
   <<"D4AcceptLanguageExists", Branch(Decision("D5AcceptableLanguageAvailable"), Decision("E5AcceptCharsetExists"))>>,
   <<"D5AcceptableLanguageAvailable", Branch(Decision("E5AcceptCharsetExists"), End(406))>>,
   <<"E5AcceptCharsetExists", Branch(Decision("E6AcceptableCharsetAvailable"), Decision("F6AcceptEncodingExists"))>>,
   <<"E6AcceptableCharsetAvailable", Branch(Decision("F6AcceptEncodingExists"), End(406))>>,
   <<"F6AcceptEncodingExists", Branch(Decision("F7AcceptableEncodingAvailable"), Decision("G7ResourceExists"))>>,
   <<"F7AcceptableEncodingAvailable", Branch(Decision("G7ResourceExists"), End(406))>>,
   <<"G7ResourceExists", Branch(Decision("G8IfMatchExists"), Decision("H7IfMatchStarExists"))>>,
   <<"G8IfMatchExists", Branch(Decision("G9IfMatchStarExists"), Decision("H10IfUnmodifiedSinceExists"))>>,
   <<"G9IfMatchStarExists", Branch(Decision("H10IfUnmodifiedSinceExists"), Decision("G11EtagInIfMatch"))>>,
   <<"G11EtagInIfMatch", Branch(Decision("H10IfUnmodifiedSinceExists"), End(412))>>,
   <<"H7IfMatchStarExists", Branch(End(412), Decision("I7Put"))>>,
   <<"H10IfUnmodifiedSinceExists", Branch(Decision("H11IfUnmodifiedSinceValid"), Decision("I12IfNoneMatchExists"))>>,
   <<"H11IfUnmodifiedSinceValid", Branch(Decision("H12LastModifiedGreaterThanUMS"), Decision("I12IfNoneMatchExists"))>>,
   <<"H12LastModifiedGreaterThanUMS", Branch(End(412), Decision("I12IfNoneMatchExists"))>>,
   <<"I4HasMovedPermanently", Branch(End(301), Decision("P3Conflict"))>>,
   <<"I7Put", Branch(Decision("I4HasMovedPermanently"), Decision("K7ResourcePreviouslyExisted"))>>,
   <<"I12IfNoneMatchExists", Branch(Decision("I13IfNoneMatchStarExists"), Decision("L13IfModifiedSinceExists"))>>,
   <<"I13IfNoneMatchStarExists", Branch(Decision("J18GetHead"), Decision("K13ETagInIfNoneMatch"))>>,
   <<"J18GetHead", Branch(End(304), End(412))>>,
   <<"K13ETagInIfNoneMatch", Branch(Decision("J18GetHead"), Decision("L13IfModifiedSinceExists"))>>,
   <<"K5HasMovedPermanently", Branch(End(301), Decision("L5HasMovedTemporarily"))>>,
   <<"K7ResourcePreviouslyExisted", Branch(Decision("K5HasMovedPermanently"), Decision("L7Post"))>>,
   <<"L5HasMovedTemporarily", Branch(End(307), Decision("M5Post"))>>,
   <<"L7Post", Branch(Decision("M7PostToMissingResource"), End(404))>>,
   <<"L13IfModifiedSinceExists", Branch(Decision("L14IfModifiedSinceValid"), Decision("M16Delete"))>>,
   <<"L14IfModifiedSinceValid", Branch(Decision("L15IfModifiedSinceGreaterThanNow"), Decision("M16Delete"))>>,
   <<"L15IfModifiedSinceGreaterThanNow", Branch(Decision("M16Delete"), Decision("L17IfLastModifiedGreaterThanMS"))>>,
   <<"L17IfLastModifiedGreaterThanMS", Branch(Decision("M16Delete"), End(304))>>,
   <<"M5Post", Branch(Decision("N5PostToMissingResource"), End(410))>>,
   <<"M7PostToMissingResource", Branch(Decision("N11Redirect"), End(404))>>,
   <<"M16Delete", Branch(Decision("M20DeleteEnacted"), Decision("N16Post"))>>,
   <<"M20DeleteEnacted", Branch(Decision("O20ResponseHasBody"), End(202))>>,
   <<"N5PostToMissingResource", Branch(Decision("N11Redirect"), End(410))>>,
   <<"N11Redirect", Branch(End(303), Decision("P11NewResource"))>>,
   <<"N16Post", Branch(Decision("N11Redirect"), Decision("O16Put"))>>,
   <<"O14Conflict", Branch(End(409), Decision("P11NewResource"))>>,
   <<"O16Put", Branch(Decision("O14Conflict"), Decision("O18MultipleRepresentations"))>>,
   <<"O18MultipleRepresentations", Branch(End(300), End(200))>>,
   <<"O20ResponseHasBody", Branch(Decision("O18MultipleRepresentations"), End(204))>>,
   <<"P3Conflict", Branch(End(409), Decision("P11NewResource"))>>,
   <<"P11NewResource", Branch(End(201), Decision("O20ResponseHasBody"))>>}

\* C4: the table in use is the specified table: Start leads to B13Available and
\* every node has the specified successors, none missing and none extra.
C4_TableAsSpecified == transition_map = hashmap(SpecifiedTransitions)

C4_TableUsed == pc = "done" /\ Len(decisions) > 20 /\ transition_map = TRANSITION_MAP

\* The validation checks in the order of the claim: the decision, its callback (none
\* for a check made on the request alone), the outcome that fails the check and the
\* status of the failure.
ValidationChecks ==
  <<[node |-> "B13Available", callback |-> "available", fails |-> FALSE, status |-> 503],
    [node |-> "B12KnownMethod", callback |-> "", fails |-> FALSE, status |-> 501],
    [node |-> "B11UriTooLong", callback |-> "uri_too_long", fails |-> TRUE, status |-> 414],
    [node |-> "B10MethodAllowed", callback |-> "", fails |-> FALSE, status |-> 405],
    [node |-> "B9MalformedRequest", callback |-> "malformed_request", fails |-> TRUE,
     status |-> 400],
    [node |-> "B8Authorized", callback |-> "not_authorized", fails |-> FALSE,
     status |-> 401],
    [node |-> "B7Forbidden", callback |-> "forbidden", fails |-> TRUE, status |-> 403],
    [node |-> "B6UnsupportedContentHeader", callback |-> "unsupported_content_headers",
     fails |-> TRUE, status |-> 501],
    [node |-> "B5UnknownContentType", callback |-> "", fails |-> TRUE, status |-> 415],
    [node |-> "B4RequestEntityTooLarge", callback |-> "valid_entity_length",
     fails |-> TRUE, status |-> 413]>>

\* What a validation check found, TRUE when the check failed: read off the answer of
\* its callback, or off the request for the checks that have none.
ValidationFailed(check) ==
  LET answer == calls[CHOOSE i \in DOMAIN calls : calls[i].callback = check.callback].returns
      method_in(methods) ==
        \E i \in DOMAIN methods :
          to_uppercase(methods[i]) = to_uppercase(context.request.method)
      put_or_post == to_uppercase(context.request.method) \in {"PUT", "POST"}
  IN CASE check.node = "B12KnownMethod" -> ~method_in(resource.known_methods)
       [] check.node = "B10MethodAllowed" -> ~method_in(resource.allowed_methods)
       [] check.node = "B5UnknownContentType" ->
            /\ put_or_post
            /\ \A i \in DOMAIN resource.acceptable_content_types :
                 to_uppercase(resource.acceptable_content_types[i])
                   # to_uppercase(content_type(context.request))
       [] check.node = "B4RequestEntityTooLarge" -> put_or_post /\ ~answer
       [] check.node = "B8Authorized" -> answer.some
       [] check.node = "B13Available" -> ~answer
       [] OTHER -> answer

\* The callbacks that finalise_response invokes.
FinaliseCallbacks ==
  {"generate_etag", "expires", "last_modified", "render_response", "finalise_response"}

\* C5: the first ten decisions are the validation checks in their order; a check
\* fails exactly when its callback or the request says so; the first failing check
\* ends the run with its status, and nothing is decided or invoked after it: no later
\* decision, no callback of a later check, no resource_exists.  The last two checks
\* fail only for PUT and POST.
C5_ValidationOrder ==
  \A i \in DOMAIN decisions :
    i <= Len(ValidationChecks) =>
      LET check == ValidationChecks[i]
          failed == ValidationFailed(check)
      IN /\ decisions[i][1].node = check.node
         /\ decisions[i][2] = IF failed THEN check.fails ELSE ~check.fails
         /\ failed =>
              /\ decisions[i][3] = End(check.status)
              /\ Len(decisions) = i
              /\ state = End(check.status)
              /\ (Returned => context.response.status = check.status)
              /\ (i >= 9 => to_uppercase(context.request.method) \in {"PUT", "POST"})
              /\ \A j \in DOMAIN calls :
                   \/ \E k \in 1..i : calls[j].callback = ValidationChecks[k].callback
                   \/ pc = "done" /\ calls[j].callback \in FinaliseCallbacks

\* Two checks fail at once, an unknown method that is not allowed either: 501.
C5_FirstFailureWins ==
  /\ pc = "done"
  /\ context.response.status = 501
  /\ ValidationFailed(ValidationChecks[2])
  /\ ValidationFailed(ValidationChecks[4])
  /\ Len(decisions) = 2

\* The callbacks that answer with a result or an error.
Fallible == {"delete_resource", "create_path", "process_post", "process_put"}

\* C6: once one of delete_resource, create_path, process_post and process_put has
\* returned Err(code), the decision that invoked it is the last one, it leads to
\* End(code), the status of the response is code, and no callback is invoked after it
\* but those of finalise_response.
C6_ErrorIsFinal ==
  \A i \in DOMAIN calls :
    (calls[i].callback \in Fallible /\ ~calls[i].returns.ok) =>
      LET code == calls[i].returns.code
      IN /\ state = End(code)
         /\ decisions[Len(decisions)][1].node
              \in {"M20DeleteEnacted", "N11Redirect", "P11NewResource"}
         /\ decisions[Len(decisions)][3] = End(code)
         /\ (Returned => context.response.status = code)
         /\ \A j \in DOMAIN calls :
              j > i => pc = "done" /\ calls[j].callback \in FinaliseCallbacks

C6_PutFailed ==
  /\ pc = "done"
  /\ Answered("process_put", Err(422))
  /\ context.response.status = 422

\* C7: when the earlier checks pass and the method is in allowed_methods in no
\* casing, the status is 405 and the Allow header lists allowed_methods in their
\* order; when the method is allowed, the response has no Allow header.
C7_AllowOn405 ==
  LET allowed == \E i \in DOMAIN resource.allowed_methods :
                   to_uppercase(resource.allowed_methods[i])
                     = to_uppercase(context.request.method)
      headers == context.response.headers
  IN Evaluated("B10MethodAllowed") =>
       IF allowed
       THEN /\ \E i \in DOMAIN decisions :
                 decisions[i] = <<Decision("B10MethodAllowed"), TRUE,
                                  Decision("B9MalformedRequest")>>
            /\ \A k \in DOMAIN headers : to_uppercase(k) # "ALLOW"
       ELSE /\ state = End(405)
            /\ (Returned => context.response.status = 405)
            /\ "Allow" \in DOMAIN headers
            /\ Len(headers["Allow"]) = Len(resource.allowed_methods)
            /\ \A i \in DOMAIN resource.allowed_methods :
                 headers["Allow"][i]
                   = [value |-> resource.allowed_methods[i], params |-> <<>>,
                      quote |-> FALSE]

C7_NotAllowed ==
  /\ pc = "done"
  /\ context.response.status = 405
  /\ context.request.method = "POST"
  /\ "Allow" \in DOMAIN context.response.headers

\* C8: a response with status 301, 303 or 307 has a Location header.
C8_RedirectHasLocation ==
  (Returned /\ context.response.status \in {301, 303, 307}) =>
    \E k \in DOMAIN context.response.headers : to_uppercase(k) = "LOCATION"

\* The decisions of content negotiation.
NegotiationDecisions ==
  {"C3AcceptExists", "C4AcceptableMediaTypeAvailable", "D4AcceptLanguageExists",
   "D5AcceptableLanguageAvailable", "E5AcceptCharsetExists",
   "E6AcceptableCharsetAvailable", "F6AcceptEncodingExists",
   "F7AcceptableEncodingAvailable"}

\* C9: an OPTIONS request that passes the checks B13 to B4 ends at A3Options, B3Options
\* being its last decision: neither a negotiation decision nor resource_exists is
\* evaluated, the status is 204 and every header the options callback returned is in
\* the response.
C9_OptionsEndsAtA3 ==
  (to_uppercase(context.request.method) = "OPTIONS" /\ Evaluated("B3Options")) =>
    /\ state = Decision("A3Options")
    /\ decisions[Len(decisions)] = <<Decision("B3Options"), TRUE, Decision("A3Options")>>
    /\ \A i \in DOMAIN decisions :
         decisions[i][1].node \notin NegotiationDecisions \cup {"G7ResourceExists"}
    /\ ~Invoked("resource_exists")
    /\ Returned =>
         /\ context.response.status = 204
         /\ \E i \in DOMAIN calls :
              /\ calls[i].callback = "options"
              /\ calls[i].returns.some =>
                   \A k \in DOMAIN calls[i].returns.val :
                     /\ k \in DOMAIN context.response.headers
                     /\ Len(context.response.headers[k]) = Len(calls[i].returns.val[k])
                     /\ \A n \in DOMAIN calls[i].returns.val[k] :
                          context.response.headers[k][n].value = calls[i].returns.val[k][n]

C9_OptionsAnswered ==
  /\ pc = "done"
  /\ state = Decision("A3Options")
  /\ Answered("options", Some(cors_headers(resource.allowed_methods)))
  /\ "Access-Control-Allow-Methods" \in DOMAIN context.response.headers

\* A PUT that carries the value * in If-Match, to a resource that does not exist.
PutIfMatchStarToMissing ==
  /\ to_uppercase(context.request.method) = "PUT"
  /\ \E k \in DOMAIN context.request.headers :
       /\ to_uppercase(k) = "IF-MATCH"
       /\ \E n \in DOMAIN context.request.headers[k] :
            context.request.headers[k][n].value = "*"
  /\ Answered("resource_exists", FALSE)

\* C10 as stated: such a PUT, with no move and no conflict reported, falls through to
\* I7Put and ends with 201 by P11NewResource, new_resource set.
C10_PutIfMatchStarCreates ==
  (Returned /\ PutIfMatchStarToMissing
     /\ ~Answered("moved_permanently", Some("http://go.away.com/to/here"))
     /\ ~Answered("is_conflict", TRUE)) =>
    /\ Evaluated("I7Put")
    /\ Evaluated("P11NewResource")
    /\ context.response.status = 201
    /\ context.new_resource

\* C10, amended: such a PUT ends at H7IfMatchStarExists with 412: I7Put and
\* P11NewResource are not evaluated.  A PUT to a missing
\* resource without the value * in If-Match takes the I7Put path: with no move, no
\* conflict and process_put succeeding it ends with 201 by P11NewResource, with
\* new_resource set.
C10_PutIfMatchStarFails ==
  /\ (Returned /\ PutIfMatchStarToMissing) =>
       /\ decisions[Len(decisions)]
            = <<Decision("H7IfMatchStarExists"), TRUE, End(412)>>
       /\ ~Evaluated("I7Put")
       /\ ~Evaluated("P11NewResource")
       /\ context.response.status = 412
  /\ (Returned /\ to_uppercase(context.request.method) = "PUT"
        /\ Answered("resource_exists", FALSE)
        /\ ~PutIfMatchStarToMissing
        /\ Answered("moved_permanently", None)
        /\ Answered("is_conflict", FALSE)
        /\ (Answered("process_put", Ok(TRUE)) \/ Answered("process_put", Ok(FALSE)))) =>
       /\ Evaluated("I7Put")
       /\ decisions[Len(decisions)] = <<Decision("P11NewResource"), TRUE, End(201)>>
       /\ context.response.status = 201
       /\ context.new_resource

C10_PutIfMatchStarRefused ==
  /\ pc = "done"
  /\ PutIfMatchStarToMissing
  /\ context.response.status = 412

\* The value the callback of WebmachineResource::default() returns.
DefaultReturns(name) ==
  CASE name \in {"available", "valid_entity_length", "resource_exists"} -> TRUE
    [] name \in {"not_authorized", "moved_permanently", "moved_temporarily",
                 "generate_etag", "last_modified", "expires", "render_response"} -> None
    [] name \in {"delete_resource", "process_put"} -> Ok(TRUE)
    [] name = "process_post" -> Ok(FALSE)
    [] name = "create_path" -> Ok(context.request.request_path)
    [] name = "options" -> Some(cors_headers(resource.allowed_methods))
    [] name \in {"finish_request", "finalise_response"} -> <<>>
    [] OTHER -> FALSE

\* Every callback invoked so far answered as the default callback does, and none
\* asked for a redirect or wrote a body.
DefaultCallbacks ==
  /\ \A i \in DOMAIN calls : calls[i].returns = DefaultReturns(calls[i].callback)
  /\ ~context.redirect
  /\ ~context.response.body.some

GetOrHead == to_uppercase(context.request.method) \in {"GET", "HEAD"}

\* C11 as stated: a GET or HEAD request served by the default callbacks evaluates
\* neither M16Delete nor P11NewResource.
C11_GetAvoidsM16AndP11 ==
  (GetOrHead /\ DefaultCallbacks) =>
    ~Evaluated("M16Delete") /\ ~Evaluated("P11NewResource")

\* C11, amended: a GET or HEAD request never evaluates P11NewResource or
\* M20DeleteEnacted, and neither delete_resource nor process_put nor process_post is
\* invoked for it; M16Delete it does evaluate, on the way to N16Post, and the outcome
\* there is always false.
C11_GetHeadPassM16 ==
  GetOrHead =>
    /\ ~Evaluated("P11NewResource")
    /\ ~Evaluated("M20DeleteEnacted")
    /\ ~Invoked("delete_resource")
    /\ ~Invoked("process_put")
    /\ ~Invoked("process_post")
    /\ \A i \in DOMAIN decisions :
         decisions[i][1].node = "M16Delete" =>
           decisions[i] = <<Decision("M16Delete"), FALSE, Decision("N16Post")>>

C11_DefaultGetAtM16 ==
  /\ pc = "done"
  /\ context.request.method = "GET"
  /\ DefaultCallbacks
  /\ Evaluated("M16Delete")
  /\ context.response.status = 200

\* The decisions that set context.new_resource, with the outcome that sets it.
NewResourceDecisions ==
  {<<Decision("I7Put"), TRUE, Decision("I4HasMovedPermanently")>>,
   <<Decision("M7PostToMissingResource"), TRUE, Decision("N11Redirect")>>,
   <<Decision("N5PostToMissingResource"), TRUE, Decision("N11Redirect")>>}

\* C12: context.new_resource is true exactly in the runs that have passed I7Put,
\* M7PostToMissingResource or N5PostToMissingResource with the outcome true, and has
\* the value of the default context in every other run; I7Put is true only for a PUT,
\* and the other two are true exactly when allow_missing_post answered true.
C12_NewResourceSetOnlyAt ==
  /\ IF \E i \in DOMAIN decisions : decisions[i] \in NewResourceDecisions
     THEN context.new_resource = TRUE
     ELSE context.new_resource = WebmachineContext_default.new_resource
  /\ \A i \in DOMAIN decisions :
       /\ decisions[i][1].node = "I7Put" =>
            decisions[i][2] = (to_uppercase(context.request.method) = "PUT")
       /\ decisions[i][1].node \in {"M7PostToMissingResource", "N5PostToMissingResource"} =>
            /\ Invoked("allow_missing_post")
            /\ decisions[i][2] = Answered("allow_missing_post", TRUE)

C12_PostToMissingAllowed ==
  /\ pc = "done"
  /\ Evaluated("N5PostToMissingResource")
  /\ Answered("allow_missing_post", TRUE)
  /\ context.new_resource
  /\ context.response.status = 201

IsPut == to_uppercase(context.request.method) = "PUT"

\* process_put was invoked and returned Ok, whatever the boolean inside.
ProcessPutOk == Answered("process_put", Ok(TRUE)) \/ Answered("process_put", Ok(FALSE))

\* The status of a request that has reached O20ResponseHasBody.
StatusByBody ==
  IF has_body(context.response)
  THEN IF Answered("multiple_choices", TRUE) THEN 300 ELSE 200
  ELSE 204

\* C13: a PUT that reaches I7Put (the resource is missing) ends, when
\* moved_permanently answers none, is_conflict false and process_put Ok, with 201.  A
\* PUT that reaches O16Put (the resource exists) ends with 409 when is_conflict answers
\* true, process_put not being invoked; otherwise process_put is invoked and, when it
\* returns Ok, the status is 204 without a response body, and with one 300 if
\* multiple_choices answers true and 200 if not.  Whenever P11NewResource is decided
\* after process_put returned Ok, its outcome is context.new_resource, whatever the
\* boolean inside the Ok.
C13_PutOutcomes ==
  IsPut =>
    /\ (Returned /\ Evaluated("I7Put") /\ Answered("moved_permanently", None)
          /\ Answered("is_conflict", FALSE) /\ ProcessPutOk) =>
         /\ decisions[Len(decisions)] = <<Decision("P11NewResource"), TRUE, End(201)>>
         /\ context.response.status = 201
    /\ (Returned /\ Evaluated("O16Put")) =>
         /\ Invoked("is_conflict")
         /\ Answered("is_conflict", TRUE) =>
              /\ decisions[Len(decisions)] = <<Decision("O14Conflict"), TRUE, End(409)>>
              /\ context.response.status = 409
              /\ ~Invoked("process_put")
         /\ Answered("is_conflict", FALSE) =>
              /\ Invoked("process_put")
              /\ ProcessPutOk =>
                   /\ \E i \in DOMAIN decisions :
                        decisions[i] = <<Decision("P11NewResource"), FALSE,
                                         Decision("O20ResponseHasBody")>>
                   /\ context.response.status = StatusByBody
    /\ \A i \in DOMAIN decisions :
         (decisions[i][1].node = "P11NewResource" /\ ProcessPutOk) =>
           decisions[i][2] = context.new_resource

C13_PutToExistingNotCreated ==
  /\ pc = "done"
  /\ IsPut
  /\ Evaluated("O16Put")
  /\ Answered("process_put", Ok(TRUE))
  /\ ~context.new_resource
  /\ has_body(context.response)
  /\ context.response.status = 200

\* A path placed under a base path, for paths that start with / and end without one.
UnderBasePath(base_path, path) ==
  LET prefix == IF base_path = "/" THEN "" ELSE base_path
      suffix == IF path = "/" THEN "" ELSE path
  IN IF prefix \o suffix = "" THEN "/" ELSE prefix \o suffix

\* The callback that N11Redirect invoked after post_is_create returned Ok.
PostHandledOk ==
  \E i \in DOMAIN calls :
    calls[i].callback \in {"create_path", "process_post"} /\ calls[i].returns.ok

\* C14: N11Redirect asks post_is_create.  On true it invokes create_path and not
\* process_post, and with Ok(path) sets the Location header to path under the base path
\* of the request and request_path to path; on false it invokes process_post and not
\* create_path.  When the handler returned Ok, the outcome is context.redirect as the
\* handler left it: true ends the request with 303; false leads to P11NewResource,
\* which gives 201 when new_resource is set.
C14_RedirectAfterPost ==
  Evaluated("N11Redirect") =>
    /\ Invoked("post_is_create")
    /\ Answered("post_is_create", TRUE) =>
         /\ Invoked("create_path")
         /\ ~Invoked("process_post")
         /\ \A i \in DOMAIN calls :
              (calls[i].callback = "create_path" /\ calls[i].returns.ok) =>
                /\ "Location" \in DOMAIN context.response.headers
                /\ context.response.headers["Location"]
                     = <<[value |-> UnderBasePath(context.request.base_path,
                                                  calls[i].returns.val),
                          params |-> <<>>, quote |-> FALSE]>>
                /\ context.request.request_path = calls[i].returns.val
    /\ Answered("post_is_create", FALSE) =>
         /\ Invoked("process_post")
         /\ ~Invoked("create_path")
         /\ context.request.request_path = WebmachineRequest_default.request_path
    /\ PostHandledOk =>
         /\ \E i \in DOMAIN decisions :
              decisions[i] = <<Decision("N11Redirect"), context.redirect,
                               IF context.redirect THEN End(303)
                               ELSE Decision("P11NewResource")>>
         /\ Returned =>
              /\ context.response.status = 303 <=> context.redirect
              /\ ~context.redirect =>
                   /\ Evaluated("P11NewResource")
                   /\ context.new_resource => context.response.status = 201

C14_CreatedUnderBasePath ==
  /\ pc = "done"
  /\ context.request.base_path = "/base/path"
  /\ Answered("create_path", Ok("/new/path"))
  /\ context.redirect
  /\ context.response.status = 303
  /\ context.response.headers["Location"][1].value = "/base/path/new/path"

IsDelete == to_uppercase(context.request.method) = "DELETE"

\* C15: a DELETE that reaches M16Delete (the resource exists and the conditional
\* checks have passed) has, when it returns, invoked delete_resource exactly once:
\* after Ok(false) M20DeleteEnacted leads to End(202) and the status is 202; after
\* Ok(true) it leads to O20ResponseHasBody and the status is 204 without a response
\* body, and with one 300 if multiple_choices answers true and 200 if not.
C15_DeleteOutcomes ==
  (IsDelete /\ Evaluated("M16Delete") /\ Returned) =>
    /\ Cardinality({i \in DOMAIN calls : calls[i].callback = "delete_resource"}) = 1
    /\ Answered("delete_resource", Ok(FALSE)) =>
         /\ decisions[Len(decisions)]
              = <<Decision("M20DeleteEnacted"), FALSE, End(202)>>
         /\ context.response.status = 202
    /\ Answered("delete_resource", Ok(TRUE)) =>
         /\ \E i \in DOMAIN decisions :
              decisions[i] = <<Decision("M20DeleteEnacted"), TRUE,
                               Decision("O20ResponseHasBody")>>
         /\ context.response.status = StatusByBody

C15_DeletedWithChoices ==
  /\ pc = "done"
  /\ IsDelete
  /\ Answered("delete_resource", Ok(TRUE))
  /\ has_body(context.response)
  /\ Answered("multiple_choices", TRUE)
  /\ context.response.status = 300

\* The request carries the value * in its If-Match header.
IfMatchStar ==
  \E k \in DOMAIN context.request.headers :
    /\ to_uppercase(k) = "IF-MATCH"
    /\ \E n \in DOMAIN context.request.headers[k] :
         context.request.headers[k][n].value = "*"

\* A POST that the resource accepts although the resource is missing.
MissingPostAllowed ==
  /\ to_uppercase(context.request.method) = "POST"
  /\ Answered("allow_missing_post", TRUE)

\* The response has this status and this location as its Location header.
MovedTo(status, location) ==
  /\ context.response.status = status
  /\ "Location" \in DOMAIN context.response.headers
  /\ context.response.headers["Location"]
       = <<[value |-> location, params |-> <<>>, quote |-> FALSE]>>

\* C16: a request that is not a PUT, without * in If-Match, to a resource that does
\* not exist asks previously_existed.  On false the status is 404, unless it is a
\* POST that allow_missing_post accepts, which goes on to N11Redirect.  On true the
\* status is 301 with the location of moved_permanently, else 307 with the location of
\* moved_temporarily, else 410, unless it is a POST that allow_missing_post accepts,
\* which goes on to N11Redirect.
C16_MissingResource ==
  (Returned /\ Answered("resource_exists", FALSE) /\ ~IfMatchStar /\ ~IsPut) =>
    /\ Invoked("previously_existed")
    /\ Answered("previously_existed", FALSE) =>
         IF MissingPostAllowed THEN Evaluated("N11Redirect")
         ELSE context.response.status = 404
    /\ Answered("previously_existed", TRUE) =>
         /\ Invoked("moved_permanently")
         /\ \A i \in DOMAIN calls :
              (calls[i].callback = "moved_permanently" /\ calls[i].returns.some) =>
                MovedTo(301, calls[i].returns.val)
         /\ Answered("moved_permanently", None) =>
              /\ Invoked("moved_temporarily")
              /\ \A i \in DOMAIN calls :
                   (calls[i].callback = "moved_temporarily" /\ calls[i].returns.some) =>
                     MovedTo(307, calls[i].returns.val)
              /\ Answered("moved_temporarily", None) =>
                   IF MissingPostAllowed THEN Evaluated("N11Redirect")
                   ELSE context.response.status = 410

C16_MovedTemporarily ==
  /\ pc = "done"
  /\ context.request.method = "DELETE"
  /\ Answered("resource_exists", FALSE)
  /\ Answered("previously_existed", TRUE)
  /\ Answered("moved_permanently", None)
  /\ MovedTo(307, "http://go.away.com/to/here")

\* The first answer of a callback in the run.
FirstAnswer(name) ==
  calls[CHOOSE i \in DOMAIN calls :
          /\ calls[i].callback = name
          /\ \A j \in 1..(i - 1) : calls[j].callback # name].returns

\* The entity tag an entry of If-Match or If-None-Match stands for: the string inside
\* the quotes of W/"..." for a weak entry, the entry itself otherwise.
EntryTag(entry) ==
  IF Len(entry.value) >= 4 /\ SubSeq(entry.value, 1, 3) = "W/\""
  THEN SubSeq(entry.value, 4, Len(entry.value) - 1)
  ELSE entry.value

\* The entries of a request header, the name compared in upper case.
Entries(header) ==
  UNION {{context.request.headers[k][n] : n \in DOMAIN context.request.headers[k]} :
           k \in {x \in DOMAIN context.request.headers : to_uppercase(x) = header}}

HasHeader(header) ==
  \E k \in DOMAIN context.request.headers : to_uppercase(k) = header

\* C17: for a resource that exists and a request with an If-Match header: when the
\* header holds * or an entry whose tag is the value generate_etag returned, the
\* request goes on to H10IfUnmodifiedSinceExists; in every other case, generate_etag
\* returning none included, G11EtagInIfMatch is the last decision and the status is
\* 412.
C17_IfMatch ==
  (Returned /\ Answered("resource_exists", TRUE) /\ HasHeader("IF-MATCH")) =>
    IF \/ IfMatchStar
       \/ /\ FirstAnswer("generate_etag").some
          /\ \E entry \in Entries("IF-MATCH") :
               EntryTag(entry) = FirstAnswer("generate_etag").val
    THEN /\ Evaluated("H10IfUnmodifiedSinceExists")
         /\ IfMatchStar => ~Evaluated("G11EtagInIfMatch")
    ELSE /\ decisions[Len(decisions)]
              = <<Decision("G11EtagInIfMatch"), FALSE, End(412)>>
         /\ context.response.status = 412

C17_WeakEntryMatches ==
  /\ pc = "done"
  /\ Answered("resource_exists", TRUE)
  /\ \E i \in DOMAIN decisions :
       decisions[i] = <<Decision("G11EtagInIfMatch"), TRUE,
                        Decision("H10IfUnmodifiedSinceExists")>>
  /\ \E entry \in Entries("IF-MATCH") :
       /\ Len(entry.value) > 2
       /\ SubSeq(entry.value, 1, 2) = "W/"
       /\ Some(EntryTag(entry)) = FirstAnswer("generate_etag")

\* The answers of a callback in the run, in the order of the invocations.
Answers(name) ==
  LET of_name(call) == call.callback = name
  IN SelectSeq(calls, of_name)

\* The tag generate_etag returned to K13ETagInIfNoneMatch: its second answer when
\* G11EtagInIfMatch has asked before, its first otherwise.
EtagForIfNoneMatch ==
  Answers("generate_etag")[IF Evaluated("G11EtagInIfMatch") THEN 2 ELSE 1].returns

\* C18: for a request that reaches I12IfNoneMatchExists (the resource exists, If-Match
\* and If-Unmodified-Since have passed) with an If-None-Match header: when the header
\* holds * or an entry whose tag is the value generate_etag returned, J18GetHead is
\* the last decision and the status is 304 for GET and HEAD and 412 for every other
\* method; otherwise the request goes on to L13IfModifiedSinceExists.
C18_IfNoneMatch ==
  (Returned /\ Evaluated("I12IfNoneMatchExists") /\ HasHeader("IF-NONE-MATCH")) =>
    IF \/ \E entry \in Entries("IF-NONE-MATCH") : entry.value = "*"
       \/ /\ EtagForIfNoneMatch.some
          /\ \E entry \in Entries("IF-NONE-MATCH") :
               EntryTag(entry) = EtagForIfNoneMatch.val
    THEN /\ decisions[Len(decisions)]
              = <<Decision("J18GetHead"), GetOrHead,
                  IF GetOrHead THEN End(304) ELSE End(412)>>
         /\ context.response.status = IF GetOrHead THEN 304 ELSE 412
    ELSE /\ Evaluated("L13IfModifiedSinceExists")
         /\ ~Evaluated("J18GetHead")

C18_HeadNotModified ==
  /\ pc = "done"
  /\ context.request.method = "HEAD"
  /\ Evaluated("K13ETagInIfNoneMatch")
  /\ EtagForIfNoneMatch = Some("1234567890")
  /\ context.response.status = 304

\* The names under which the response of a context has a header, in any casing.
ResponseNames(ctx, header) ==
  {k \in DOMAIN ctx.response.headers : to_uppercase(k) = header}

\* The step of finalise_response.
Finalised == pc = "finalise_response" /\ pc' = "done"

\* C19: finalise_response leaves the headers named Content-Type in any casing as they
\* are when the response has one; when it has none it adds Content-Type with the
\* value selected_media_type, or application/json, and the one parameter charset,
\* equal to selected_charset, or ISO-8859-1.
C19_ContentType ==
  [][Finalised =>
       IF ResponseNames(context, "CONTENT-TYPE") # {}
       THEN /\ ResponseNames(context', "CONTENT-TYPE")
                 = ResponseNames(context, "CONTENT-TYPE")
            /\ \A k \in ResponseNames(context, "CONTENT-TYPE") :
                 context'.response.headers[k] = context.response.headers[k]
       ELSE /\ ResponseNames(context', "CONTENT-TYPE") = {"Content-Type"}
            /\ context'.response.headers["Content-Type"]
                 = <<[value |-> IF context.selected_media_type = None
                                THEN "application/json"
                                ELSE context.selected_media_type.val,
                      params |-> [charset |-> IF context.selected_charset = None
                                              THEN "ISO-8859-1"
                                              ELSE context.selected_charset.val],
                      quote |-> FALSE]>>]_vars

C19_ContentTypeKept ==
  /\ pc = "done"
  /\ ResponseNames(context, "CONTENT-TYPE") = {"content-type"}
  /\ context.response.headers["content-type"]
       = <<[value |-> "text/plain", params |-> <<>>, quote |-> FALSE]>>

\* A header value without parameters.
Plain(name) == [value |-> name, params |-> <<>>, quote |-> FALSE]

\* The list of C20: the variances of the resource, left out when the response has a
\* Vary header already, then the Accept headers of the fields with two entries or more.
VaryList ==
  (IF ResponseNames(context, "VARY") = {}
   THEN [i \in DOMAIN resource.variances |-> Plain(resource.variances[i])] ELSE <<>>)
    \o (IF Len(resource.languages_provided) >= 2 THEN <<Plain("Accept-Language")>> ELSE <<>>)
    \o (IF Len(resource.charsets_provided) >= 2 THEN <<Plain("Accept-Charset")>> ELSE <<>>)
    \o (IF Len(resource.encodings_provided) >= 2 THEN <<Plain("Accept-Encoding")>> ELSE <<>>)
    \o (IF Len(resource.produces) >= 2 THEN <<Plain("Accept")>> ELSE <<>>)

\* A list without its duplicates, the first occurrences in their order.
RECURSIVE Deduplicated(_)
Deduplicated(list) ==
  IF list = <<>> THEN <<>>
  ELSE LET front == SubSeq(list, 1, Len(list) - 1)
       IN IF \E j \in DOMAIN front : front[j] = list[Len(list)]
          THEN Deduplicated(front)
          ELSE Append(Deduplicated(front), list[Len(list)])

ValidatorHeaders ==
  {[name |-> "ETag", upper |-> "ETAG", callback |-> "generate_etag", position |-> 1],
   [name |-> "Expires", upper |-> "EXPIRES", callback |-> "expires", position |-> 2],
   [name |-> "Last-Modified", upper |-> "LAST-MODIFIED", callback |-> "last_modified",
    position |-> 3]}

ValidatorText(callback, value) ==
  IF callback = "generate_etag" THEN value ELSE to_rfc2822(value)

\* The header that finalise_response makes of a callback's answer.
ValidatorAdded(ctx, h, call) ==
  /\ call.callback = h.callback
  /\ ResponseNames(ctx, h.upper) = {h.name}
  /\ ctx.response.headers[h.name]
       = <<[value |-> ValidatorText(h.callback, call.returns.val),
            params |-> <<>>, quote |-> TRUE]>>

\* C21: the response starts with no header; a step adds an ETag, Expires or
\* Last-Modified header, in any casing, exactly when the request is a GET or a HEAD, the step is
\* finalise_response and the callback of the header (generate_etag, expires,
\* last_modified, invoked in this order) returns a value to it; the header is then
\* that value, quoted.  For every other method no step adds one of them, whatever the
\* status.
C21_ValidatorHeaders ==
  [][\A h \in ValidatorHeaders :
       IF Finalised /\ GetOrHead /\ calls'[Len(calls) + h.position].returns.some
       THEN ValidatorAdded(context', h, calls'[Len(calls) + h.position])
       ELSE \A k \in DOMAIN context'.response.headers :
              /\ k # h.name
              /\ k \in DOMAIN context.response.headers \/ to_uppercase(k) # h.upper]_vars

C21_HeadWithValidators ==
  /\ pc = "done"
  /\ context.request.method = "HEAD"
  /\ "ETag" \in DOMAIN context.response.headers
  /\ "Expires" \in DOMAIN context.response.headers
  /\ "Last-Modified" \in DOMAIN context.response.headers
  /\ context.response.headers["Last-Modified"][1].value
       = "Thu, 01 Jan 1970 00:00:02 +0000"

\* The calls of render_response that a step makes.
Rendered == {i \in DOMAIN calls' : i > Len(calls) /\ calls'[i].callback = "render_response"}

\* C22: finalise_response calls render_response, once, exactly when the method is GET,
\* the status is 200 and the response has no body; the body then becomes the string
\* it returns and stays absent when it returns none.  For any other method or status,
\* or when a body is present, render_response is not called and finalise_response
\* leaves the body as it is; no decision of the state machine calls render_response.
C22_RenderResponse ==
  [][IF /\ Finalised
        /\ context.request.method = "GET"
        /\ context.response.status = 200
        /\ context.response.body = None
     THEN /\ Cardinality(Rendered) = 1
          /\ \A i \in Rendered : context'.response.body = calls'[i].returns
     ELSE /\ Rendered = {}
          /\ Finalised => context'.response.body = context.response.body]_vars

C22_GetRendered ==
  /\ pc = "done"
  /\ context.request.method = "GET"
  /\ context.response.status = 200
  /\ context.response.body = Some("{}")
  /\ Answered("render_response", Some("{}"))

\* A GET that ends with 200 and the body a callback wrote is not rendered.
C22_GetWithBodyNotRendered ==
  /\ pc = "done"
  /\ context.request.method = "GET"
  /\ context.response.status = 200
  /\ context.response.body = Some("body")
  /\ ~Invoked("render_response")

\* The entries of the request's Accept header that match a produced media type.
AcceptMatches(produced) ==
  {i \in DOMAIN accept(context.request) :
     MediaType_matches(MediaType_parse_string(produced),
                       as_media_type(accept(context.request)[i])) # NoMatch}

ZeroWeight(i) == as_media_type(accept(context.request)[i]).weight = 0

Produced == {resource.produces[i] : i \in DOMAIN resource.produces}

\* C23 as stated: once C4AcceptableMediaTypeAvailable is evaluated, a selected media
\* type is a produced one that an Accept entry with a weight other than 0 matches,
\* and when only entries with q=0 match the produced types the request ends with 406.
C23_ZeroWeightNeverSelected ==
  Evaluated("C4AcceptableMediaTypeAvailable") =>
    /\ \A produced \in Produced :
         context.selected_media_type = Some(produced) =>
           \E i \in AcceptMatches(produced) : ~ZeroWeight(i)
    /\ (\A produced \in Produced : \A i \in AcceptMatches(produced) : ZeroWeight(i))
         => state = End(406)

\* The entry of an Accept-* header has the weight 0.
ZeroQuality(h) == "q" \in DOMAIN h.params /\ parse_weight(h.params["q"]) = 0

\* The header names the alternative, in any casing, with the weight 0.
NamedWithZero(header, alternative) ==
  \E i \in DOMAIN header :
    ZeroQuality(header[i]) /\ to_lowercase(header[i].value) = to_lowercase(alternative)

\* The header has `*` with the weight 0 and no entry of another weight for the
\* alternative: none that names it and, for a language, none that it is a prefix of.
ExcludedByStar(header, alternative) ==
  /\ \E i \in DOMAIN header : ZeroQuality(header[i]) /\ header[i].value = "*"
  /\ \A i \in DOMAIN header :
       ZeroQuality(header[i])
         \/ ~starts_with(to_lowercase(header[i].value), to_lowercase(alternative))

InList(list, alternative) == \E i \in DOMAIN list : list[i] = alternative

\* The alternative is one the resource provides and the header rules out with q=0.
RuledOut(header, provided, selected) ==
  /\ selected.some
  /\ InList(provided, selected.val)
  /\ NamedWithZero(header, selected.val) \/ ExcludedByStar(header, selected.val)

\* C24 as stated: the language, charset and encoding that negotiation selects is
\* never a provided alternative that the Accept-Language, Accept-Charset or
\* Accept-Encoding header names with q=0, or that `*;q=0` excludes, whatever other
\* entries the header has.
C24_ZeroQualityExcludes ==
  /\ Evaluated("D5AcceptableLanguageAvailable") =>
       ~RuledOut(accept_language(context.request), resource.languages_provided,
                 context.selected_language)
  /\ Evaluated("E6AcceptableCharsetAvailable") =>
       ~RuledOut(accept_charset(context.request), resource.charsets_provided,
                 context.selected_charset)
  /\ Evaluated("F7AcceptableEncodingAvailable") =>
       ~RuledOut(accept_encoding(context.request), resource.encodings_provided,
                 context.selected_encoding)

\* The lowest rank (Full, SubStar, Star, or NoMatch) of the matches of a produced
\* media type against the entries of the request's Accept header.
Rank(produced) ==
  CHOOSE rank \in {Full, SubStar, Star, NoMatch} :
    /\ rank = NoMatch
         \/ \E i \in DOMAIN accept(context.request) :
              MediaType_matches(MediaType_parse_string(produced),
                                as_media_type(accept(context.request)[i])) = rank
    /\ \A i \in DOMAIN accept(context.request) :
         MediaType_matches(MediaType_parse_string(produced),
                           as_media_type(accept(context.request)[i])) >= rank

\* The decision was evaluated, found nothing acceptable and ended the run with 406.
RefusedAt(node) ==
  \E i \in DOMAIN decisions : decisions[i] = <<Decision(node), FALSE, End(406)>>

\* The produced media type is the earliest of those with the lowest rank of all.
EarliestOfLowestRank(i) ==
  /\ Rank(resource.produces[i]) < NoMatch
  /\ \A j \in DOMAIN resource.produces :
       /\ Rank(resource.produces[j]) >= Rank(resource.produces[i])
       /\ j < i => Rank(resource.produces[j]) > Rank(resource.produces[i])

\* C25: with an Accept header, C4AcceptableMediaTypeAvailable selects the produced
\* media type whose match against some Accept entry has the lowest rank over all
\* pairs (Full before SubStar before Star), the earlier entry of produces on a tie;
\* it selects none, and the request ends with 406, exactly when no pair matches.
C25_LowestRankSelected ==
  Evaluated("C4AcceptableMediaTypeAvailable") =>
    IF \A i \in DOMAIN resource.produces : Rank(resource.produces[i]) = NoMatch
    THEN /\ context.selected_media_type = None
         /\ RefusedAt("C4AcceptableMediaTypeAvailable")
    ELSE /\ \E i \in DOMAIN resource.produces :
              /\ EarliestOfLowestRank(i)
              /\ context.selected_media_type = Some(resource.produces[i])
         /\ ~RefusedAt("C4AcceptableMediaTypeAvailable")

\* application/json, the second produced type, matches in full where text/html, the
\* first, matches text/* only.
C25_FullBeforeSubStar ==
  /\ pc = "done"
  /\ resource.produces = <<"text/html", "application/json">>
  /\ accept(context.request) = parse_header_values("text/*, application/json")
  /\ context.selected_media_type = Some("application/json")

\* The relation of C26 on the texts of a provided and an acceptable language.
LanguageMatches(provided, acceptable) ==
  \/ acceptable = "*"
  \/ provided = acceptable
  \/ /\ Len(acceptable) > Len(provided)
     /\ SubSeq(acceptable, 1, Len(provided) + 1) = provided \o "-"

\* C26: a provided language matches an acceptable one exactly when the acceptable
\* one is `*`, or the two are equal, or the acceptable one starts with the provided
\* one followed by `-`; and D5AcceptableLanguageAvailable finds a language exactly
\* when some provided language matches some entry of Accept-Language, of a weight
\* other than 0, in this way.
C26_LanguageMatching ==
  /\ \A i \in DOMAIN resource.languages_provided :
       \A j \in DOMAIN accept_language(context.request) :
         MediaLanguage_matches(
             MediaLanguage_parse_string(resource.languages_provided[i]),
             as_media_language(accept_language(context.request)[j]))
           <=> LanguageMatches(resource.languages_provided[i],
                               accept_language(context.request)[j].value)
  /\ (Evaluated("D5AcceptableLanguageAvailable") /\ resource.languages_provided # <<>>)
       => (~RefusedAt("D5AcceptableLanguageAvailable")
             <=> \E i \in DOMAIN resource.languages_provided :
                   \E j \in DOMAIN accept_language(context.request) :
                     /\ ~ZeroQuality(accept_language(context.request)[j])
                     /\ LanguageMatches(resource.languages_provided[i],
                                        accept_language(context.request)[j].value))

\* Provided en is selected for en-gb.
C26_PrefixMatches ==
  /\ pc = "done"
  /\ resource.languages_provided = <<"en">>
  /\ accept_language(context.request) = parse_header_values("en-gb")
  /\ context.selected_language = Some("en")

\* Provided en is not selected for enfoo, nor provided e for en-gb.
C26_NoMatchWithoutHyphen ==
  /\ pc = "done"
  /\ context.response.status = 406
  /\ \/ /\ resource.languages_provided = <<"en">>
        /\ accept_language(context.request) = parse_header_values("enfoo")
     \/ /\ resource.languages_provided = <<"e">>
        /\ accept_language(context.request) = parse_header_values("en-gb")

\* The header has an entry for the alternative, in any casing, or for `*`.
Listed(header, alternative) ==
  \E i \in DOMAIN header :
    header[i].value = "*" \/ to_lowercase(header[i].value) = to_lowercase(alternative)

\* The weight of an entry of an Accept-* header, in thousandths.
Quality(h) == IF "q" \in DOMAIN h.params THEN parse_weight(h.params["q"]) ELSE 1000

\* An entry of weight 1 or more names a provided alternative.
FullWeightMatch(header, provided) ==
  \E i \in DOMAIN header : \E j \in DOMAIN provided :
    Quality(header[i]) >= 1000 /\ to_lowercase(header[i].value) = to_lowercase(provided[j])

\* The default alternative, not listed in the header, is acceptable with weight 1:
\* when the resource provides it something is selected, and it is the one selected
\* unless an entry of weight 1 or more names a provided alternative.
AcceptableByDefault(header, provided, selected, default) ==
  ~Listed(header, default) =>
    \A i \in DOMAIN provided :
      to_lowercase(provided[i]) = to_lowercase(default) =>
        /\ selected.some
        /\ ~FullWeightMatch(header, provided) => selected = Some(provided[i])

\* C27: when Accept-Charset lists neither ISO-8859-1, in any casing, nor `*`,
\* ISO-8859-1 is acceptable with weight 1, and so is identity when Accept-Encoding
\* lists neither identity nor `*`; and for a resource that provides identity
\* F7AcceptableEncodingAvailable finds an encoding for every Accept-Encoding header
\* that has neither identity nor `*` with q=0.
C27_DefaultAlternatives ==
  /\ Evaluated("E6AcceptableCharsetAvailable") =>
       AcceptableByDefault(accept_charset(context.request), resource.charsets_provided,
                           context.selected_charset, "ISO-8859-1")
  /\ Evaluated("F7AcceptableEncodingAvailable") =>
       /\ AcceptableByDefault(accept_encoding(context.request),
                              resource.encodings_provided,
                              context.selected_encoding, "identity")
       /\ (/\ \E i \in DOMAIN resource.encodings_provided :
                to_lowercase(resource.encodings_provided[i]) = "identity"
           /\ ~NamedWithZero(accept_encoding(context.request), "identity")
           /\ ~NamedWithZero(accept_encoding(context.request), "*"))
            => context.selected_encoding.some /\ state # End(406)

\* identity, not in the header, is preferred to the gzip that the header gives the
\* weight 0.5.
C27_IdentityBeforeLighter ==
  /\ pc = "done"
  /\ accept_encoding(context.request) = parse_header_values("gzip;q=0.5")
  /\ resource.encodings_provided = <<"gzip", "identity">>
  /\ context.selected_encoding = Some("identity")

\* ISO-8859-1, not in the header, is selected in the casing the resource gives it.
C27_CharsetByDefault ==
  /\ pc = "done"
  /\ accept_charset(context.request) = parse_header_values("iso-8859-5")
  /\ resource.charsets_provided = <<"US-ASCII", "iso-8859-1">>
  /\ context.selected_charset = Some("iso-8859-1")

\* C28 as stated: a request without an Accept header, to a resource that produces at
\* least one media type, ends, once negotiation was reached, with the first entry of
\* produces as the selected media type and as the value of Content-Type.
C28_FirstProducedSelected ==
  (/\ pc = "done"
   /\ Evaluated("C3AcceptExists")
   /\ ~has_accept_header(context.request)
   /\ resource.produces # <<>>)
    => /\ context.selected_media_type = Some(resource.produces[1])
       /\ "Content-Type" \in DOMAIN context.response.headers
       /\ context.response.headers["Content-Type"][1].value = resource.produces[1]

\* C29 as stated: the header value parsed from the text that to_string gives for a
\* parsed header value has the value and the parameters of that header value.
C29_RoundTrip ==
  converted.step = "reparsed" =>
    /\ converted.value.value = converted.original.value
    /\ converted.value.params = converted.original.params

\* The result of a request that is over: what its callbacks returned and did to the
\* context, and what the engine made of it.
Given(thread) ==
  <<thread.p.calls, thread.p.context.redirect, thread.p.context.response.body>>

C30_BothOver ==
  /\ threads # <<>>
  /\ threads[1].p.pc = "done"
  /\ threads[2].p.pc = "done"
  /\ threads[1].p.context.request.method = "POST"
  /\ threads[2].p.context.request.method = "POST"
  /\ Given(threads[1]) = Given(threads[2])
  /\ threads[1].p.context.response.status = 303

\* The date headers with the decision that validates them and the slot of the context
\* that receives the date.
DateHeaders ==
  {[name |-> "If-Unmodified-Since", node |-> "H11IfUnmodifiedSinceValid",
    slot |-> "if_unmodified_since"],
   [name |-> "If-Modified-Since", node |-> "L14IfModifiedSinceValid",
    slot |-> "if_modified_since"]}

\* C31: a date header that the transport received in RFC 2822 form, with the comma after
\* the day name, is valid at H11IfUnmodifiedSinceValid and L14IfModifiedSinceValid and
\* its date is stored in the context.
C31_TransportDateAccepted ==
  \A h \in DateHeaders, digit \in {"1", "3"} :
    (/\ Evaluated(h.node)
     /\ find_header(context.request, h.name) = parse_header_values(Date(digit)))
    => /\ \E i \in DOMAIN decisions : decisions[i][1].node = h.node /\ decisions[i][2]
       /\ context[h.slot] = Some(DigitVal(digit))


\* The routes whose segments are a prefix of the segments of the request path.
Matching ==
  {i \in DOMAIN routes : starts_with(sanitise_path(context.request.request_path),
                                     sanitise_path(routes[i].path))}

\* The segments of the request path that follow those of the route.
RemainderOf(path, route) ==
  SubSeq(sanitise_path(path), Len(sanitise_path(route)) + 1, Len(sanitise_path(path)))

\* C32: dispatch_to_resource gives the request to the resource of the longest route whose
\* segments are a prefix of those of the request path, with base_path the route and
\* request_path the remainder of the request path ("/" when nothing remains), and then
\* execute_state_machine and finalise_response run once each, whatever the status; when
\* no route matches the status is 404 and neither of the two runs.
C32_Dispatch ==
  [][/\ (pc = "dispatch_to_resource" /\ Matching = {}) =>
          /\ pc' = "done"
          /\ context'.response.status = 404
          /\ decisions' = <<>>
          /\ calls' = <<>>
     /\ (pc = "dispatch_to_resource" /\ Matching # {}) =>
          /\ pc' = "execute_state_machine"
          /\ \E i \in Matching :
               /\ \A j \in Matching : Len(routes[j].path) <= Len(routes[i].path)
               /\ resource' = routes[i].resource
               /\ context'.request.base_path = routes[i].path
               /\ sanitise_path(context'.request.request_path)
                    = RemainderOf(context.request.request_path, routes[i].path)
               /\ (RemainderOf(context.request.request_path, routes[i].path) = <<>>
                     => context'.request.request_path = "/")
     /\ pc = "execute_state_machine" => pc' \in {"execute_state_machine", "finalise_response"}
     /\ pc = "finalise_response" =>
          /\ pc' = "done"
          /\ resource.finalise_response =>
               /\ Len(calls') > Len(calls)
               /\ \A i \in DOMAIN calls' :
                    calls'[i].callback = "finalise_response" <=> i = Len(calls')
     /\ pc # "done"]_vars

\* The steps of content negotiation, in their order: the decision that looks for the
\* header, the decision that asks the sub-engine, the header, and the decision that
\* follows a step that is passed or skipped.
NegotiationSteps ==
  <<[exists |-> "C3AcceptExists", available |-> "C4AcceptableMediaTypeAvailable",
     name |-> "ACCEPT", next |-> "D4AcceptLanguageExists"],
    [exists |-> "D4AcceptLanguageExists", available |-> "D5AcceptableLanguageAvailable",
     name |-> "ACCEPT-LANGUAGE", next |-> "E5AcceptCharsetExists"],
    [exists |-> "E5AcceptCharsetExists", available |-> "E6AcceptableCharsetAvailable",
     name |-> "ACCEPT-CHARSET", next |-> "F6AcceptEncodingExists"],
    [exists |-> "F6AcceptEncodingExists", available |-> "F7AcceptableEncodingAvailable",
     name |-> "ACCEPT-ENCODING", next |-> "G7ResourceExists"]>>

\* What the sub-engine of a step returns for the request and the resource.
SubEngine(step) ==
  CASE step = 1 -> matching_content_type(resource, context.request)
    [] step = 2 -> matching_language(resource, context.request)
    [] step = 3 -> matching_charset(resource, context.request)
    [] OTHER -> matching_encoding(resource, context.request)

\* What a step that has been evaluated left in the context for the alternative returned.
Stored(step, returned) ==
  CASE step = 1 -> context.selected_media_type = returned
    [] step = 2 ->
         /\ context.selected_language = IF returned = Some("*") THEN None ELSE returned
         /\ IF returned.some /\ returned # Some("*")
            THEN /\ "Content-Language" \in DOMAIN context.response.headers
                 /\ context.response.headers["Content-Language"]
                      = <<parse_string(returned.val)>>
            ELSE ResponseNames(context, "CONTENT-LANGUAGE") = {}
    [] step = 3 ->
         context.selected_charset = IF returned = Some("*") THEN None ELSE returned
    [] OTHER ->
         /\ context.selected_encoding = returned
         /\ IF returned.some /\ returned # Some("identity")
            THEN /\ "Content-Encoding" \in DOMAIN context.response.headers
                 /\ context.response.headers["Content-Encoding"]
                      = <<parse_string(returned.val)>>
            ELSE ResponseNames(context, "CONTENT-ENCODING") = {}

\* C33: content negotiation goes through media type, language, charset and encoding in
\* this order; a step asks its sub-engine exactly when its header is present; when the
\* sub-engine returns none the request ends with 406 there, and no later step and no
\* resource_exists is evaluated; when it returns an alternative the processing goes on
\* to the next step with the alternative stored in the context (a language or charset
\* only when it is not *), Content-Language added unless the language is * and
\* Content-Encoding added unless the encoding is identity.  A step that is not
\* evaluated stores nothing.
C33_NegotiationOrder ==
  \A step \in DOMAIN NegotiationSteps :
    /\ \A i \in DOMAIN decisions :
         /\ decisions[i][1].node = NegotiationSteps[step].exists =>
              /\ decisions[i][2] = HasHeader(NegotiationSteps[step].name)
              /\ decisions[i][3]
                   = Decision(IF decisions[i][2] THEN NegotiationSteps[step].available
                              ELSE NegotiationSteps[step].next)
              /\ \A j \in (i + 1)..Len(decisions), earlier \in 1..step :
                   decisions[j][1].node
                     \notin {NegotiationSteps[earlier].exists,
                             IF earlier < step THEN NegotiationSteps[earlier].available
                             ELSE NegotiationSteps[earlier].exists}
         /\ decisions[i][1].node = NegotiationSteps[step].available =>
              /\ i > 1
              /\ decisions[i - 1][1].node = NegotiationSteps[step].exists
              /\ decisions[i][2] = SubEngine(step).some
              /\ decisions[i][3] = IF decisions[i][2]
                                   THEN Decision(NegotiationSteps[step].next)
                                   ELSE End(406)
              /\ ~decisions[i][2] =>
                   /\ i = Len(decisions)
                   /\ ~Evaluated("G7ResourceExists")
                   /\ ~Invoked("resource_exists")
                   /\ (Returned => context.response.status = 406)
    /\ Stored(step, IF Evaluated(NegotiationSteps[step].available)
                    THEN SubEngine(step) ELSE None)

\* A request with the four headers is refused at the charset, after a media type and a
\* language have been selected.
C33_RefusedAtCharset ==
  /\ pc = "done"
  /\ context.response.status = 406
  /\ Evaluated("E6AcceptableCharsetAvailable")
  /\ context.selected_media_type.some
  /\ context.selected_language = Some("da")
  /\ ~Evaluated("F6AcceptEncodingExists")

\* A request with the four headers passes the four steps, with gzip for the encoding.
C33_AllSelected ==
  /\ pc = "done"
  /\ Evaluated("G7ResourceExists")
  /\ context.selected_media_type.some
  /\ context.selected_language = Some("da")
  /\ context.selected_charset.some
  /\ context.selected_encoding = Some("gzip")
  /\ "Content-Encoding" \in DOMAIN context.response.headers

\* The entries of an Accept-* header with their weights, in the order of the header,
\* followed by the default alternative of the header when the header lists neither it
\* nor `*`.
WeightedEntries(header, default) ==
  [i \in DOMAIN header |-> [value |-> header[i].value, weight |-> Quality(header[i])]]
    \o IF default = "" \/ Listed(header, default) THEN <<>>
       ELSE <<[value |-> default, weight |-> 1000]>>

\* The entries that some provided alternative matches.
WithMatch(entries, provided, Matches(_, _)) ==
  {i \in DOMAIN entries : \E j \in DOMAIN provided : Matches(provided[j], entries[i].value)}

\* Of these the one of highest weight, the earliest of them when several have it.
Preferred(entries, provided, Matches(_, _)) ==
  CHOOSE i \in WithMatch(entries, provided, Matches) :
    \A k \in WithMatch(entries, provided, Matches) :
      \/ entries[k].weight < entries[i].weight
      \/ entries[k].weight = entries[i].weight /\ i <= k

\* The first provided alternative that matches the entry.
FirstProvided(entry, provided, Matches(_, _)) ==
  provided[CHOOSE j \in DOMAIN provided :
             /\ Matches(provided[j], entry.value)
             /\ \A k \in 1..(j - 1) : ~Matches(provided[k], entry.value)]

\* An alternative is returned exactly when an entry of a weight above 0 has a provided
\* match, and it is the first provided match of the preferred entry.
ClientPreference(returned, entries, provided, Matches(_, _)) ==
  /\ returned.some <=> \E i \in WithMatch(entries, provided, Matches) :
                         entries[i].weight > 0
  /\ returned.some =>
       returned = Some(FirstProvided(entries[Preferred(entries, provided, Matches)],
                                     provided, Matches))

SameOrStar(provided, acceptable) ==
  acceptable = "*" \/ to_lowercase(provided) = to_lowercase(acceptable)

\* C34: for languages, charsets and encodings, when the header is present and not empty
\* and the resource provides a list, the alternative returned is the first in the
\* resource's list that matches the acceptable entry of highest weight that has any
\* provided match, the earliest in the header among entries of that weight (ISO-8859-1
\* and identity count as the last entry, of weight 1, when the header does not list
\* them): the order of the client goes before the order of the resource.
C34_ClientPreference ==
  /\ (/\ Evaluated("D5AcceptableLanguageAvailable")
      /\ accept_language(context.request) # <<>>
      /\ resource.languages_provided # <<>>)
     => ClientPreference(matching_language(resource, context.request),
                         WeightedEntries(accept_language(context.request), ""),
                         resource.languages_provided, LanguageMatches)
  /\ (/\ Evaluated("E6AcceptableCharsetAvailable")
      /\ accept_charset(context.request) # <<>>
      /\ resource.charsets_provided # <<>>)
     => ClientPreference(matching_charset(resource, context.request),
                         WeightedEntries(accept_charset(context.request), "ISO-8859-1"),
                         resource.charsets_provided, SameOrStar)
  /\ (/\ Evaluated("F7AcceptableEncodingAvailable")
      /\ accept_encoding(context.request) # <<>>
      /\ resource.encodings_provided # <<>>)
     => ClientPreference(matching_encoding(resource, context.request),
                         WeightedEntries(accept_encoding(context.request), "identity"),
                         resource.encodings_provided, SameOrStar)

\* The resource lists en before da, the client da before en-gb: da is selected.
C34_ClientOrderWins ==
  /\ pc = "done"
  /\ resource.languages_provided = <<"en", "da">>
  /\ accept_language(context.request) = parse_header_values("da, en-gb;q=0.8")
  /\ context.selected_language = Some("da")

\* The date the first value of the header stands for, when it parses as RFC 2822.
HeaderDate(header) ==
  IF find_header(context.request, header) = <<>> THEN None
  ELSE IF parse_from_rfc2822(find_header(context.request, header)[1].value).ok
  THEN Some(parse_from_rfc2822(find_header(context.request, header)[1].value).val)
  ELSE None

\* The step asks last_modified, once, and invokes no other callback.
AsksLastModified ==
  /\ Len(calls') = Len(calls) + 1
  /\ SubSeq(calls', 1, Len(calls)) = calls
  /\ calls'[Len(calls')].callback = "last_modified"

\* C35: If-Unmodified-Since leads to 412 exactly when its first value parses as an
\* RFC 2822 date and last_modified returns a date strictly later than it.  The date is
\* put in context.if_unmodified_since by H11IfUnmodifiedSinceValid and by no other
\* step; a request without the header, with a header that does not parse, or whose
\* resource has no last_modified or none that is later, goes on to I12IfNoneMatchExists
\* with its response and the rest of its context as they were.
C35_IfUnmodifiedSince ==
  [][pc = "execute_state_machine" =>
       /\ state.node # "H11IfUnmodifiedSinceValid" =>
            context'.if_unmodified_since = context.if_unmodified_since
       /\ state.node = "H10IfUnmodifiedSinceExists" =>
            /\ context' = context
            /\ calls' = calls
            /\ state' = Decision(IF HasHeader("IF-UNMODIFIED-SINCE")
                                 THEN "H11IfUnmodifiedSinceValid"
                                 ELSE "I12IfNoneMatchExists")
       /\ state.node = "H11IfUnmodifiedSinceValid" =>
            /\ calls' = calls
            /\ IF HeaderDate("If-Unmodified-Since").some
               THEN /\ context' = [context EXCEPT !.if_unmodified_since =
                                                    HeaderDate("If-Unmodified-Since")]
                    /\ state' = Decision("H12LastModifiedGreaterThanUMS")
               ELSE /\ context' = context
                    /\ state' = Decision("I12IfNoneMatchExists")
       /\ state.node = "H12LastModifiedGreaterThanUMS" =>
            /\ context' = context
            /\ context.if_unmodified_since = HeaderDate("If-Unmodified-Since")
            /\ AsksLastModified
            /\ state' = IF /\ calls'[Len(calls')].returns.some
                           /\ calls'[Len(calls')].returns.val
                                > context.if_unmodified_since.val
                        THEN End(412) ELSE Decision("I12IfNoneMatchExists")]_vars

\* last_modified is later than the date of the header: 412.
C35_ModifiedSince ==
  /\ pc = "done"
  /\ context.response.status = 412
  /\ context.if_unmodified_since = Some(1)
  /\ Answered("last_modified", Some(2))

\* last_modified is the date of the header: the request goes on.
C35_ModifiedAtTheDate ==
  /\ Evaluated("I12IfNoneMatchExists")
  /\ Evaluated("H12LastModifiedGreaterThanUMS")
  /\ context.if_unmodified_since = Some(1)
  /\ calls[Len(calls)] = [callback |-> "last_modified", returns |-> Some(1)]

\* C36: a request that reaches L13IfModifiedSinceExists with an If-Modified-Since header
\* whose first value parses as a date that is not later than the current time ends with
\* 304, unless last_modified returns a date strictly later than that of the header, and
\* then it goes on to M16Delete; a request without the header, or with one that does not
\* parse or that is later than the current time, goes on to M16Delete too, and
\* last_modified is not asked.
C36_IfModifiedSince ==
  [][pc = "execute_state_machine" =>
       /\ state.node # "L14IfModifiedSinceValid" =>
            context'.if_modified_since = context.if_modified_since
       /\ state.node = "L13IfModifiedSinceExists" =>
            /\ context' = context
            /\ calls' = calls
            /\ state' = Decision(IF HasHeader("IF-MODIFIED-SINCE")
                                 THEN "L14IfModifiedSinceValid" ELSE "M16Delete")
       /\ state.node = "L14IfModifiedSinceValid" =>
            /\ calls' = calls
            /\ IF HeaderDate("If-Modified-Since").some
               THEN /\ context' = [context EXCEPT !.if_modified_since =
                                                    HeaderDate("If-Modified-Since")]
                    /\ state' = Decision("L15IfModifiedSinceGreaterThanNow")
               ELSE /\ context' = context
                    /\ state' = Decision("M16Delete")
       /\ state.node = "L15IfModifiedSinceGreaterThanNow" =>
            /\ context' = context
            /\ calls' = calls
            /\ context.if_modified_since = HeaderDate("If-Modified-Since")
            /\ pc' = "execute_state_machine"
            /\ state' = Decision(IF context.if_modified_since.val > now THEN "M16Delete"
                                 ELSE "L17IfLastModifiedGreaterThanMS")
       /\ state.node = "L17IfLastModifiedGreaterThanMS" =>
            /\ context' = context
            /\ context.if_modified_since = HeaderDate("If-Modified-Since")
            /\ context.if_modified_since.val <= now
            /\ AsksLastModified
            /\ state' = IF /\ calls'[Len(calls')].returns.some
                           /\ calls'[Len(calls')].returns.val
                                > context.if_modified_since.val
                        THEN Decision("M16Delete") ELSE End(304)]_vars

\* last_modified is the date of the header: 304.
C36_NotModified ==
  /\ pc = "done"
  /\ context.response.status = 304
  /\ context.if_modified_since = Some(1)
  /\ Answered("last_modified", Some(1))

\* The date of the header is later than the current time: the header is ignored.
C36_FutureDateIgnored ==
  /\ context.if_modified_since = Some(3)
  /\ Evaluated("M16Delete")
  /\ ~Invoked("last_modified")


\* The decisions that have a predicate of their own in execute_decision.
Predicates ==
  {"B10MethodAllowed", "B11UriTooLong", "B12KnownMethod", "B13Available",
   "B9MalformedRequest", "B8Authorized", "B7Forbidden", "B6UnsupportedContentHeader",
   "B5UnknownContentType", "B4RequestEntityTooLarge", "B3Options", "C3AcceptExists",
   "C4AcceptableMediaTypeAvailable", "D4AcceptLanguageExists",
   "D5AcceptableLanguageAvailable", "E5AcceptCharsetExists",
   "E6AcceptableCharsetAvailable", "F6AcceptEncodingExists",
   "F7AcceptableEncodingAvailable", "G7ResourceExists", "G8IfMatchExists",
   "G9IfMatchStarExists", "H7IfMatchStarExists", "G11EtagInIfMatch",
   "H10IfUnmodifiedSinceExists", "H11IfUnmodifiedSinceValid",
   "H12LastModifiedGreaterThanUMS", "I7Put", "I12IfNoneMatchExists",
   "I13IfNoneMatchStarExists", "J18GetHead", "K7ResourcePreviouslyExisted",
   "K13ETagInIfNoneMatch", "L5HasMovedTemporarily", "L7Post", "M5Post", "N16Post",
   "L13IfModifiedSinceExists", "L14IfModifiedSinceValid",
   "L15IfModifiedSinceGreaterThanNow", "L17IfLastModifiedGreaterThanMS",
   "I4HasMovedPermanently", "K5HasMovedPermanently", "M7PostToMissingResource",
   "N5PostToMissingResource", "M16Delete", "M20DeleteEnacted", "N11Redirect",
   "P3Conflict", "O14Conflict", "P11NewResource", "O16Put",
   "O18MultipleRepresentations", "O20ResponseHasBody"}

\* The statuses that end a row of the shipped table, with the 204 of A3Options.
EngineStatuses ==
  {200, 201, 202, 204, 300, 301, 303, 304, 307, 400, 401, 403, 404, 405, 406, 409, 410,
   412, 413, 414, 415, 501, 503}

\* A callback of Fallible that returned Err(code).
Failed(code) ==
  \E i \in DOMAIN calls :
    /\ calls[i].callback \in Fallible
    /\ calls[i].returns = Err(code)

\* C37: the status written by execute_state_machine is one of EngineStatuses unless
\* delete_resource, create_path, process_post or process_put returned Err(code), which
\* happens only at M20DeleteEnacted, N11Redirect and P11NewResource; with the shipped
\* table every decision met has a TRANSITION_MAP entry and a predicate of its own, so
\* End(500) is entered only for an Err(500) of a callback.
C37_StatusSet ==
  /\ (pc = "execute_state_machine" /\ ~is_terminal(state)) =>
       state.node \in DOMAIN transition_map
  /\ \A i \in DOMAIN decisions :
       /\ decisions[i][1].node \in Predicates
       /\ (decisions[i][3] = End(500) => Failed(500))
       /\ (decisions[i][3].node = "End"
             /\ decisions[i][3].status \notin EngineStatuses) =>
            /\ Failed(decisions[i][3].status)
            /\ decisions[i][1].node
                 \in {"M20DeleteEnacted", "N11Redirect", "P11NewResource"}
  /\ Returned =>
       \/ context.response.status \in EngineStatuses
       \/ Failed(context.response.status)

C37_Conflict ==
  /\ Returned
  /\ context.response.status = 409
  /\ \A code \in {422, 500} : ~Failed(code)

C37_DeleteFailed ==
  /\ Returned
  /\ context.response.status = 500
  /\ Answered("delete_resource", Err(500))


\* The request of a thread is over.
Over(thread) == thread.p.pc \notin {"execute_state_machine", "finalise_response"}

\* The thread is in the step of N11Redirect.
InRedirect(thread) ==
  /\ thread.p.pc = "execute_state_machine"
  /\ thread.p.state.node = "N11Redirect"

\* No thread holds more than two callback locks, two only in N11Redirect and then
\* post_is_create, taken first, with create_path or process_post; between two steps
\* it holds none; and no lock has two holders.
LockDiscipline ==
  /\ \A t \in DOMAIN threads :
       /\ Cardinality(locked(threads[t])) <= 2
       /\ Cardinality(locked(threads[t])) = 2 =>
            /\ InRedirect(threads[t])
            /\ locked(threads[t]) \in {{"post_is_create", "create_path"},
                                       {"post_is_create", "process_post"}}
       /\ (InRedirect(threads[t]) /\ threads[t].held = 1) =>
            locked(threads[t]) = {"post_is_create"}
       /\ threads[t].held = 0 => locked(threads[t]) = {}
       /\ threads[t].held > 0 => ~Over(threads[t])
  /\ locked(threads[1]) \cap locked(threads[2]) = {}

\* C38: requests served at the same time on one resource do not deadlock on the
\* callback mutexes: a thread holds at most two locks (post_is_create, then create_path
\* or process_post, in N11Redirect), lets go of them before its next decision, and
\* under fair scheduling every request is over in the end.
C38_NoDeadlock ==
  /\ []LockDiscipline
  /\ <>[](\A t \in DOMAIN threads : Over(threads[t]))

C38_WaitsForRedirect ==
  \E t, u \in DOMAIN threads :
    /\ t # u
    /\ Cardinality(locked(threads[t])) = 2
    /\ InRedirect(threads[u])
    /\ threads[u].held = 0

C38_AllOver ==
  /\ \A t \in DOMAIN threads : threads[t].p.pc = "done"


\* C39 as stated: a request that ends with 304 is a GET or a HEAD request, unless one
\* of delete_resource, create_path, process_post and process_put returned Err(304).
C39_NotModifiedOnlyGetHead ==
  (Returned /\ context.response.status = 304) =>
    \/ GetOrHead
    \/ Failed(304)

\* C39: a request ends with 304 at J18GetHead only when it is a GET or a HEAD request;
\* a request of any method ends with 304 at L17IfLastModifiedGreaterThanMS, which it
\* reaches with an If-Modified-Since header whose date was read and is not later than
\* the current time, when last_modified is not later than that date; no other decision
\* ends with 304, unless a callback returned Err(304).
C39_NotModified ==
  (Returned /\ context.response.status = 304 /\ ~Failed(304)) =>
    \/ /\ decisions[Len(decisions)]
            = <<Decision("J18GetHead"), TRUE, End(304)>>
       /\ GetOrHead
    \/ /\ decisions[Len(decisions)]
            = <<Decision("L17IfLastModifiedGreaterThanMS"), FALSE, End(304)>>
       /\ HasHeader("IF-MODIFIED-SINCE")
       /\ context.if_modified_since.some
       /\ context.if_modified_since.val <= now
       /\ \/ Answered("last_modified", None)
          \/ \E modified \in 0 .. context.if_modified_since.val :
               Answered("last_modified", Some(modified))

C39_PostNotModified ==
  /\ pc = "done"
  /\ context.response.status = 304
  /\ context.request.method = "POST"
  /\ decisions[Len(decisions)][1].node = "L17IfLastModifiedGreaterThanMS"

C39_GetNotModified ==
  /\ pc = "done"
  /\ context.response.status = 304
  /\ context.request.method = "GET"
  /\ decisions[Len(decisions)][1].node = "J18GetHead"


\* The weights given to the entries of a header in turn: none, or one of three.
GivenWeights == {"", "0", "0.5", "1"}

\* The header with the weight w of each entry in place of its own.
Reweighted(header, w) ==
  [i \in DOMAIN header |->
     [header[i] EXCEPT
        !.params = IF w[i] = ""
                   THEN [k \in DOMAIN header[i].params \ {"q"} |-> header[i].params[k]]
                   ELSE insert(header[i].params, "q", w[i])]]

\* The request with the entries of its Accept header in the order perm and with the
\* weights w.
WithAccept(request, perm, w) ==
  [request EXCEPT
     !.headers["Accept"] = Reweighted([i \in DOMAIN @ |-> @[perm[i]]], w)]

\* C4AcceptableMediaTypeAvailable has just been evaluated.
MediaTypeNegotiated ==
  /\ decisions # <<>>
  /\ decisions[Len(decisions)][1].node = "C4AcceptableMediaTypeAvailable"
  /\ "Accept" \in DOMAIN context.request.headers

\* C40: the media type that matching_content_type selects is the same for every order
\* of the entries of the Accept header and for every choice of their q weights: it
\* depends on the media types the header names and on the order of produces alone.
C40_OrderAndWeights ==
  MediaTypeNegotiated =>
    /\ decisions[Len(decisions)][2]
         = matching_content_type(resource, context.request).some
    /\ \A perm \in Permutations(DOMAIN accept(context.request)) :
         \A w \in [DOMAIN accept(context.request) -> GivenWeights] :
           matching_content_type(resource, WithAccept(context.request, perm, w))
             = matching_content_type(resource, context.request)

C40_ZeroWeightSelected ==
  /\ MediaTypeNegotiated
  /\ Len(accept(context.request)) = 2
  /\ accept(context.request)[1].value = "text/html"
  /\ "q" \in DOMAIN accept(context.request)[1].params
  /\ accept(context.request)[1].params["q"] = "0"
  /\ resource.produces = <<"text/html", "application/json">>
  /\ matching_content_type(resource, context.request) = Some("text/html")

====
